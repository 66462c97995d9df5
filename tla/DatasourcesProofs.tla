-------------------------- MODULE DatasourcesProofs --------------------------
(****************************************************************************)
(* Theorems about Datasources: temporary connections are given back,        *)
(* queries survive, and the dictionaries fit the rows.                      *)
(****************************************************************************)
EXTENDS Datasources, TLAPS

BeforeDelete == {"unmask", "test", "remove", "delete"}
AfterInsert  == {"ini", "columns", "file", "path"}
Places == {"ready", "done", "find", "duplicate", "probe", "register", "tables", "insert", "cleanup"}
              \cup BeforeDelete \cup AfterInsert

Rows  == [name : Name, schema : Schema, password : 0..MaxPassword,
          table : {"none", "created", "described"}]
Dicts == [id : 0..MaxRows, password : 0..MaxPassword, files : SUBSET Id]
Calls == [pc : Places, kind : {"none", "create", "update", "delete"}, target : 0..MaxRows,
          schema : Schema, password : 0..MaxPassword, name : Name, new : 0..MaxRows]

\* A call before a deletion has its target, one after an insertion its row.
LocalsFit(r, last) ==
    /\ r.target <= last /\ r.new <= last
    /\ r.pc \in {"find"} \cup BeforeDelete => r.target # 0
    /\ r.pc \in AfterInsert => r.new # 0

ServiceShape ==
    /\ row \in [Id -> Rows] /\ inserted \in Id /\ dict \in [Name -> Dicts]
    /\ call \in [Call -> Calls] /\ \A c \in Call : LocalsFit(call[c], inserted)
    /\ temp \subseteq Call
    /\ whole \subseteq Id /\ crossed \subseteq Name /\ left \subseteq Name /\ kept \subseteq Call
    /\ stripped \subseteq Id

QueryShape ==
    /\ pool \in 0..MaxPassword /\ cached \in [password : 0..MaxPassword, isConnected : BOOLEAN]
    /\ truth \in Password /\ cut \subseteq Query
    /\ query \in [Query -> {"ready", "connect", "post", "reregister", "again", "failed"}]

Shape == ServiceShape /\ QueryShape

\* Who has a temporary connection will give it back.
Held == \A c \in temp \ kept : call[c].pc \in InTry \cup {"cleanup"}

\* Only passwords that were tested are stored: none is newer than the database's.
Tested ==
    /\ \A i \in Id : Stored(i) => row[i].password \in 1..truth
    /\ \A n \in Name : dict[n].id # 0 => dict[n].password \in 1..truth
    /\ \A c \in Call : call[c].pc \in {"register"} \cup InTry => call[c].password \in 1..truth

\* A query that goes on works with the pool of the BridgeDatasource, or with
\* none; one that registered it a moment ago has it, unless it is excused.
Served ==
    /\ cached.password <= truth
    /\ cached.isConnected => cached.password # 0 /\ pool \in {0, cached.password}
    /\ \A q \in Query :
          /\ query[q] # "failed"
          /\ query[q] = "connect" => cached.password # 0
          /\ query[q] \in {"post", "reregister", "again"} => cached.isConnected
          /\ query[q] = "again" /\ q \notin cut /\ cached.password = truth => pool # 0

(* Who works on which row. *)

CallPlaced(c) ==
    /\ call[c].pc = "find" => call[c].new = 0
    /\ call[c].pc \in BeforeDelete /\ Stored(call[c].target) =>
          row[call[c].target].name = call[c].name
    /\ call[c].pc \in AfterInsert =>
          /\ call[c].new \notin whole
          /\ Stored(call[c].new) => /\ row[call[c].new].name = call[c].name
                                    /\ row[call[c].new].password = call[c].password

\* Rows come under new ids and names not taken, and every call works on rows of
\* its own, as long as nothing crossed.
Placed ==
    /\ \A i \in Id : Stored(i) => i <= inserted
    /\ \A n \in Name : dict[n].id <= inserted
    /\ \A i \in whole : Stored(i)
    /\ \A i, j \in Id : Stored(i) /\ Stored(j) /\ row[i].name = row[j].name => i = j
    /\ \A c \in Call : CallPlaced(c)
    /\ \A c, d \in Call : call[c].new = call[d].new /\ call[c].new # 0 => c = d
    /\ \A c, d \in Call, i \in Id :
          c # d /\ WorksOn(c, i) /\ WorksOn(d, i) /\ Stored(i) => row[i].name \in crossed

\* Under a name that nothing crossed, a call finds the row it works on, and the
\* directory as it left it.
Finds(c) ==
    LET n == call[c].name
    IN  /\ call[c].pc \in BeforeDelete => Stored(call[c].target)
        /\ call[c].pc = "delete" /\ n \notin left => dict[n].id # call[c].target
        /\ call[c].pc \in AfterInsert => Stored(call[c].new)
        /\ call[c].pc \in {"columns", "file", "path"} =>
              dict[n].id = call[c].new /\ dict[n].password = call[c].password
        /\ call[c].pc = "path" => call[c].new \in dict[n].files

AllFind == \A c \in Call : call[c].name \notin crossed => Finds(c)

DatasourceInv == Placed /\ AllFind /\ DictionariesFit

----------------------------------------------------------------------------
(* Types. *)

LEMMA Bounds ==
    /\ MaxRows \in Nat \ {0} /\ MaxNames \in Nat \ {0} /\ MaxPassword \in Nat \ {0}
    /\ NoSchema \in Schema
    /\ 1 \in Id /\ 0 \in Name /\ 1 \in Password /\ Id \subseteq 0..MaxRows /\ Name \subseteq Nat
    /\ Password \subseteq 0..MaxPassword /\ 0 \in 0..MaxRows /\ Mask \in 0..MaxPassword
BY DatasourcesAssumption DEF Id, Name, Password, Mask

LEMMA Empties == NoRow \in Rows /\ NoDict \in Dicts /\ NoCall \in Calls
BY Bounds DEF NoRow, Rows, NoDict, Dicts, NoCall, Calls, Places, Mask

LEMMA InitShape == Init => Shape
<1> SUFFICES ASSUME Init PROVE Shape
  OBVIOUS
<1>1. [NoRow EXCEPT !.password = 1, !.table = "described"] \in Rows
  BY Bounds DEF NoRow, Rows, Password
<1>2. row \in [Id -> Rows]
  BY <1>1, Empties DEF Init
<1>3. [id |-> 1, password |-> 1, files |-> {1}] \in Dicts
  BY Bounds DEF Dicts
<1>4. dict \in [Name -> Dicts]
  BY <1>3, Empties DEF Init
<1>5. call \in [Call -> Calls] /\ \A c \in Call : LocalsFit(call[c], inserted)
  BY Empties, Bounds DEF Init, LocalsFit, NoCall, BeforeDelete, AfterInsert
<1>6. ServiceShape
  BY <1>2, <1>4, <1>5, Bounds DEF Init, ServiceShape
<1>7. QueryShape
  BY Bounds DEF Init, QueryShape
<1> QED
  BY <1>6, <1>7 DEF Shape


LEMMA CallMoves ==
    ASSUME ServiceShape, NEW c \in Call, NEW r \in Calls, call' = [call EXCEPT ![c] = r],
           inserted' \in Id, inserted <= inserted', LocalsFit(r, inserted')
    PROVE  /\ call' \in [Call -> Calls] /\ call'[c] = r
           /\ \A d \in Call : d # c => call'[d] = call[d]
           /\ \A d \in Call : LocalsFit(call'[d], inserted')
<1>1. call \in [Call -> Calls] /\ inserted \in Nat /\ inserted' \in Nat
  BY Bounds DEF ServiceShape, Id
<1>2. /\ call' \in [Call -> Calls] /\ call'[c] = r
      /\ \A d \in Call : d # c => call'[d] = call[d]
  BY <1>1
<1>3. ASSUME NEW d \in Call, d # c
      PROVE  LocalsFit(call'[d], inserted')
  <2>1. LocalsFit(call[d], inserted) /\ call[d].target \in Nat /\ call[d].new \in Nat
    BY <1>1, Bounds DEF ServiceShape, Calls
  <2> QED
    BY <1>1, <1>2, <1>3, <2>1 DEF LocalsFit
<1> QED
  BY <1>2, <1>3

\* Where a call goes on.
LEMMA GotoTypes ==
    ASSUME ServiceShape, NEW c \in Call, NEW pc \in Places, Goto(c, pc),
           inserted' = inserted, pc \in AfterInsert => call[c].new # 0,
           pc \in {"find"} \cup BeforeDelete => call[c].target # 0
    PROVE  /\ call' \in [Call -> Calls]
           /\ call'[c].pc = pc /\ call'[c].name = call[c].name /\ call'[c].new = call[c].new
           /\ call'[c].target = call[c].target /\ call'[c].password = call[c].password
           /\ \A d \in Call : d # c => call'[d] = call[d]
           /\ \A d \in Call : LocalsFit(call'[d], inserted')
<1> DEFINE r == [call[c] EXCEPT !.pc = pc]
<1>1. call \in [Call -> Calls] /\ call[c] \in Calls /\ inserted \in Id /\ inserted \in Nat
  BY Bounds DEF ServiceShape, Id
<1>2. call' = [call EXCEPT ![c] = r]
  BY DEF Goto
<1>3. r \in Calls
  BY <1>1 DEF Calls
<1>4. /\ r.pc = pc /\ r.name = call[c].name /\ r.new = call[c].new
      /\ r.target = call[c].target /\ r.password = call[c].password
  BY <1>1 DEF Calls
<1>5. LocalsFit(r, inserted')
  BY <1>4 DEF ServiceShape, LocalsFit
<1> HIDE DEF r
<1>6. inserted' \in Id /\ inserted <= inserted'
  BY <1>1
<1>7. /\ call' \in [Call -> Calls] /\ call'[c] = r
      /\ \A d \in Call : d # c => call'[d] = call[d]
      /\ \A d \in Call : LocalsFit(call'[d], inserted')
  BY <1>2, <1>3, <1>5, <1>6, CallMoves
<1> QED
  BY <1>4, <1>7

LEMMA DoneTypes ==
    ASSUME ServiceShape, NEW c \in Call, Done(c), inserted' = inserted
    PROVE  /\ call' \in [Call -> Calls]
           /\ call'[c].pc = "done" /\ call'[c].new = 0 /\ call'[c].target = 0
           /\ \A d \in Call : d # c => call'[d] = call[d]
           /\ \A d \in Call : LocalsFit(call'[d], inserted')
<1> DEFINE r == [NoCall EXCEPT !.pc = "done"]
<1>1. r \in Calls
  BY Empties DEF Calls, Places
<1>2. r.pc = "done" /\ r.new = 0 /\ r.target = 0
  BY DEF NoCall
<1>3. inserted \in Id /\ inserted \in Nat
  BY Bounds DEF ServiceShape, Id
<1>4. LocalsFit(r, inserted')
  BY <1>2, <1>3 DEF LocalsFit, BeforeDelete, AfterInsert
<1>5. call' = [call EXCEPT ![c] = r]
  BY DEF Done
<1> HIDE DEF r
<1>6. inserted' \in Id /\ inserted <= inserted'
  BY <1>3
<1>7. /\ call' \in [Call -> Calls] /\ call'[c] = r
      /\ \A d \in Call : d # c => call'[d] = call[d]
      /\ \A d \in Call : LocalsFit(call'[d], inserted')
  BY <1>1, <1>4, <1>5, <1>6, CallMoves
<1> QED
  BY <1>2, <1>7

\* A step of the service moves its own call, and keeps the types.
LEMMA ServiceTypes ==
    ASSUME ServiceShape, NEW c \in Call, Service(c)
    PROVE  ServiceShape' /\ \A d \in Call : d # c => call'[d] = call[d]
<1> DEFINE Moved == /\ call' \in [Call -> Calls]
                    /\ \A d \in Call : d # c => call'[d] = call[d]
                    /\ \A d \in Call : LocalsFit(call'[d], inserted')
<1> DEFINE Kept == /\ row' \in [Id -> Rows] /\ inserted' \in Id /\ dict' \in [Name -> Dicts]
                   /\ temp' \subseteq Call /\ kept' \subseteq Call
                   /\ whole' \subseteq Id /\ crossed' \subseteq Name /\ left' \subseteq Name
                   /\ stripped' \subseteq Id
<1>0. /\ call \in [Call -> Calls] /\ call[c] \in Calls /\ LocalsFit(call[c], inserted)
      /\ row \in [Id -> Rows] /\ inserted \in Id /\ dict \in [Name -> Dicts] /\ temp \subseteq Call
      /\ whole \subseteq Id /\ crossed \subseteq Name /\ left \subseteq Name /\ kept \subseteq Call
      /\ stripped \subseteq Id
      /\ inserted \in Nat /\ inserted <= inserted /\ inserted <= MaxRows
  BY Bounds DEF ServiceShape, Id
<1>a. ASSUME NEW r \in Calls, call' = [call EXCEPT ![c] = r], inserted' = inserted,
             LocalsFit(r, inserted)
      PROVE  Moved
  BY <1>0, <1>a, CallMoves
<1>b. ASSUME NEW pc \in Places, Goto(c, pc), inserted' = inserted,
             pc \in AfterInsert => call[c].new # 0,
             pc \in {"find"} \cup BeforeDelete => call[c].target # 0
      PROVE  Moved
  BY <1>b, GotoTypes
<1>c. ASSUME Done(c), inserted' = inserted
      PROVE  Moved
  BY <1>c, DoneTypes
<1>d. /\ call[c].target \in 0..inserted /\ call[c].new \in 0..inserted
      /\ call[c].pc \in {"find"} \cup BeforeDelete => call[c].target \in Id
      /\ call[c].pc \in AfterInsert => call[c].new \in Id
      /\ call[c].name \in Name /\ call[c].schema \in Schema /\ call[c].password \in 0..MaxPassword
  BY <1>0, Bounds DEF Calls, LocalsFit, Id
<1>e. \A i \in 1..inserted : i \in Id /\ i \in 0..MaxRows /\ i # 0 /\ i <= inserted
  BY <1>0, Bounds DEF Id
<1>f. ASSUME UNCHANGED <<rows, dict, temp, ghosts>>
      PROVE  Kept /\ inserted' = inserted
  BY <1>0, <1>f DEF rows, ghosts
<1> HIDE DEF Moved, Kept
<1>1. CASE AskCreate(c)
  <2>1. PICK s \in Schema, p \in Password :
           call' = [call EXCEPT ![c] = [NoCall EXCEPT !.pc = "duplicate", !.kind = "create",
                                                      !.schema = s, !.password = p]]
    BY <1>1 DEF AskCreate
  <2> DEFINE r == [NoCall EXCEPT !.pc = "duplicate", !.kind = "create", !.schema = s, !.password = p]
  <2>2. r \in Calls
    BY Empties, Bounds DEF Calls, Places
  <2>3. r.pc = "duplicate" /\ r.target = 0 /\ r.new = 0
    BY DEF NoCall
  <2> HIDE DEF r
  <2>4. LocalsFit(r, inserted)
    BY <1>0, <2>3 DEF LocalsFit, BeforeDelete, AfterInsert
  <2>5. Kept /\ inserted' = inserted
    BY <1>1, <1>f DEF AskCreate
  <2> QED
    BY <1>a, <2>1, <2>2, <2>4, <2>5 DEF r, Moved, Kept, ServiceShape
<1>2. CASE AskUpdate(c)
  <2>1. PICK i \in 1..inserted, s \in Schema, p \in Password \cup {Mask} :
           call' = [call EXCEPT ![c] = [NoCall EXCEPT !.pc = "find", !.kind = "update",
                                            !.target = i, !.schema = s, !.password = p]]
    BY <1>2 DEF AskUpdate
  <2> DEFINE r == [NoCall EXCEPT !.pc = "find", !.kind = "update", !.target = i, !.schema = s,
                                 !.password = p]
  <2>2. r \in Calls
    BY <1>e, Empties, Bounds DEF Calls, Places
  <2>3. r.pc = "find" /\ r.target = i /\ r.new = 0
    BY DEF NoCall
  <2> HIDE DEF r
  <2>4. LocalsFit(r, inserted)
    BY <1>0, <1>e, <2>3 DEF LocalsFit, BeforeDelete, AfterInsert
  <2>5. Kept /\ inserted' = inserted
    BY <1>2, <1>f DEF AskUpdate
  <2> QED
    BY <1>a, <2>1, <2>2, <2>4, <2>5 DEF r, Moved, Kept, ServiceShape
<1>3. CASE AskDelete(c)
  <2>1. PICK i \in 1..inserted :
           call' = [call EXCEPT ![c] = [NoCall EXCEPT !.pc = "find", !.kind = "delete", !.target = i]]
    BY <1>3 DEF AskDelete
  <2> DEFINE r == [NoCall EXCEPT !.pc = "find", !.kind = "delete", !.target = i]
  <2>2. r \in Calls
    BY <1>e, Empties, Bounds DEF Calls, Places
  <2>3. r.pc = "find" /\ r.target = i /\ r.new = 0
    BY DEF NoCall
  <2> HIDE DEF r
  <2>4. LocalsFit(r, inserted)
    BY <1>0, <1>e, <2>3 DEF LocalsFit, BeforeDelete, AfterInsert
  <2>5. Kept /\ inserted' = inserted
    BY <1>3, <1>f DEF AskDelete
  <2> QED
    BY <1>a, <2>1, <2>2, <2>4, <2>5 DEF r, Moved, Kept, ServiceShape
<1>4. CASE FindTarget(c)
  <2> DEFINE i == call[c].target
             pc == IF call[c].kind = "delete" THEN "remove"
                   ELSE IF call[c].password = Mask THEN "unmask" ELSE "test"
             r == [call[c] EXCEPT !.name = row[i].name, !.pc = pc]
  <2>0. i \in Id /\ call[c].pc = "find"
    BY <1>4, <1>d DEF FindTarget, At
  <2>1. row[i].name \in Name /\ pc \in BeforeDelete /\ BeforeDelete \subseteq Places
    BY <1>0, <2>0 DEF Rows, Places, BeforeDelete
  <2>2. Kept /\ inserted' = inserted
    BY <1>0, <1>4, <2>1 DEF FindTarget, rows, Kept
  <2>3. CASE Done(c)
    BY <1>c, <2>2, <2>3 DEF Moved, Kept, ServiceShape
  <2>4. CASE ~Done(c)
    <3>1. call' = [call EXCEPT ![c] = r]
      BY <1>0, <1>4, <2>4 DEF FindTarget
    <3>2. r \in Calls /\ r.pc = pc /\ r.target = i /\ r.new = call[c].new
      BY <1>0, <2>1 DEF Calls
    <3> HIDE DEF r
    <3>3. LocalsFit(r, inserted)
      BY <1>0, <2>0, <2>1, <3>2, Bounds DEF LocalsFit, BeforeDelete, AfterInsert, Id
    <3> QED
      BY <1>a, <2>2, <3>1, <3>2, <3>3 DEF Moved, Kept, ServiceShape
  <2> QED
    BY <2>3, <2>4
<1>5. CASE Unmask(c)
  <2> DEFINE i == call[c].target
             r == [call[c] EXCEPT !.password = row[i].password, !.pc = "test"]
  <2>0. i \in Id /\ call[c].pc = "unmask"
    BY <1>5, <1>d DEF Unmask, At, BeforeDelete
  <2>2. Kept /\ inserted' = inserted
    BY <1>5, <1>f DEF Unmask
  <2>3. CASE Done(c)
    BY <1>c, <2>2, <2>3 DEF Moved, Kept, ServiceShape
  <2>4. CASE ~Done(c)
    <3>1. call' = [call EXCEPT ![c] = r]
      BY <1>0, <1>5, <2>4 DEF Unmask
    <3>2. row[i].password \in 0..MaxPassword
      BY <1>0, <2>0 DEF Rows
    <3>3. r \in Calls /\ r.pc = "test" /\ r.target = i /\ r.new = call[c].new
      BY <1>0, <3>2 DEF Calls, Places, BeforeDelete
    <3> HIDE DEF r
    <3>4. LocalsFit(r, inserted)
      BY <1>0, <2>0, <3>3, Bounds DEF LocalsFit, BeforeDelete, AfterInsert, Id
    <3> QED
      BY <1>a, <2>2, <3>1, <3>3, <3>4 DEF Moved, Kept, ServiceShape
  <2> QED
    BY <2>3, <2>4
<1>6. CASE Test(c) \/ FindDuplicate(c) \/ GetTables(c) \/ Fails(c)
  <2>1. Kept /\ inserted' = inserted
    <3>1. CASE Fails(c)
      <4>1. \A d \in {c} \cap Removing : call[d].target \in Id
        BY <1>d DEF Removing, At, BeforeDelete
      <4>2. stripped' \subseteq Id
        BY <1>0, <3>1, <4>1 DEF Fails, StopsBetween
      <4> QED
        BY <1>0, <3>1, <4>2 DEF Fails, rows, Kept
    <3>2. CASE ~Fails(c)
      BY <1>6, <1>f, <3>2 DEF Test, FindDuplicate, GetTables
    <3> QED
      BY <3>1, <3>2
  <2>2. CASE Done(c)
    BY <1>c, <2>1, <2>2 DEF Moved, Kept, ServiceShape
  <2>3. CASE ~Done(c)
    <3>1. PICK pc \in {"remove", "register", "probe", "insert", "cleanup"} :
             Goto(c, pc) /\ (pc = "remove" => call[c].pc = "test")
      BY <1>6, <2>3 DEF Test, FindDuplicate, GetTables, Fails, At
    <3>2. pc \in Places /\ pc \notin AfterInsert
          /\ (pc \in {"find"} \cup BeforeDelete => call[c].target # 0)
      BY <1>0, <3>1 DEF Places, BeforeDelete, AfterInsert, LocalsFit
    <3> QED
      BY <1>b, <2>1, <3>1, <3>2 DEF Moved, Kept, ServiceShape
  <2> QED
    BY <2>2, <2>3
<1>7. CASE RemoveDictionary(c)
  <2>1. call[c].target # 0 /\ Goto(c, "delete") /\ inserted' = inserted
    BY <1>0, <1>7 DEF RemoveDictionary, At, LocalsFit, BeforeDelete, rows
  <2>2. Kept
    BY <1>0, <1>7, <1>d, Empties DEF RemoveDictionary, rows, Kept
  <2> QED
    BY <1>b, <2>1, <2>2 DEF Moved, Kept, ServiceShape, Places, BeforeDelete, AfterInsert
<1>8. CASE DeleteRow(c)
  <2> DEFINE r == [call[c] EXCEPT !.pc = "duplicate", !.name = 0]
  <2>1. Kept /\ inserted' = inserted
    BY <1>0, <1>8, Empties DEF DeleteRow, Kept
  <2>2. CASE Done(c)
    BY <1>c, <2>1, <2>2 DEF Moved, Kept, ServiceShape
  <2>3. CASE ~Done(c)
    <3>1. call' = [call EXCEPT ![c] = r]
      BY <1>0, <1>8, <2>3 DEF DeleteRow
    <3>2. r \in Calls /\ r.pc = "duplicate" /\ r.target = call[c].target /\ r.new = call[c].new
      BY <1>0, Bounds DEF Calls, Places
    <3> HIDE DEF r
    <3>3. LocalsFit(r, inserted)
      BY <1>0, <3>2 DEF LocalsFit, BeforeDelete, AfterInsert
    <3> QED
      BY <1>a, <2>1, <3>1, <3>2, <3>3 DEF Moved, Kept, ServiceShape
  <2> QED
    BY <2>2, <2>3
<1>9. CASE Register(c) \/ Cleanup(c)
  <2>1. Kept /\ inserted' = inserted
    BY <1>0, <1>9 DEF Register, Cleanup, rows, Kept
  <2>2. Done(c) \/ Goto(c, "tables")
    BY <1>9 DEF Register, Cleanup
  <2> QED
    BY <1>b, <1>c, <2>1, <2>2 DEF Moved, Kept, ServiceShape, Places, BeforeDelete, AfterInsert
<1>10. CASE TryNextName(c)
  <2> DEFINE r == [call[c] EXCEPT !.name = call[c].name + 1]
  <2>1. Kept /\ inserted' = inserted
    BY <1>10, <1>f DEF TryNextName
  <2>2. CASE Goto(c, "cleanup")
    BY <1>b, <2>1, <2>2 DEF Moved, Kept, ServiceShape, Places, BeforeDelete, AfterInsert
  <2>3. CASE ~Goto(c, "cleanup")
    <3>1. call[c].name + 1 \in Name /\ call' = [call EXCEPT ![c] = r]
      BY <1>0, <1>10, <2>3 DEF TryNextName
    <3>2. /\ r \in Calls /\ r.pc = call[c].pc /\ r.target = call[c].target
          /\ r.new = call[c].new
      BY <1>0, <3>1 DEF Calls
    <3> HIDE DEF r
    <3>3. LocalsFit(r, inserted)
      BY <1>0, <3>2 DEF LocalsFit
    <3> QED
      BY <1>a, <2>1, <3>1, <3>2, <3>3 DEF Moved, Kept, ServiceShape
  <2> QED
    BY <2>2, <2>3
<1>11. CASE InsertRow(c)
  <2>1. CASE IsRefused(call[c].schema)
    <3>1. Goto(c, "cleanup") /\ UNCHANGED <<rows, dict, temp, ghosts>>
      BY <1>11, <2>1 DEF InsertRow
    <3> QED
      BY <1>b, <1>f, <3>1 DEF Moved, Kept, ServiceShape, Places, BeforeDelete, AfterInsert
  <2>2. CASE ~IsRefused(call[c].schema)
    <3> DEFINE r == [call[c] EXCEPT !.new = inserted', !.pc = "ini"]
               new == [name |-> call[c].name, schema |-> call[c].schema,
                       password |-> call[c].password, table |-> "none"]
    <3>1. /\ inserted < MaxRows /\ inserted' = inserted + 1
          /\ row' = [row EXCEPT ![inserted'] = new]
          /\ call' = [call EXCEPT ![c].new = inserted', ![c].pc = "ini"]
          /\ UNCHANGED <<dict, temp, ghosts>>
      BY <1>11, <2>2 DEF InsertRow
    <3>2. new \in Rows
      BY <1>d DEF Rows
    <3>3. inserted' \in Id /\ inserted' \in 0..MaxRows /\ inserted <= inserted' /\ inserted' # 0
      BY <1>0, <3>1, Bounds DEF Id
    <3>4. call' = [call EXCEPT ![c] = r]
      BY <1>0, <3>1
    <3>5. r \in Calls /\ r.pc = "ini" /\ r.target = call[c].target /\ r.new = inserted'
      BY <1>0, <3>3 DEF Calls, Places, AfterInsert
    <3> HIDE DEF r, new
    <3>6. LocalsFit(r, inserted')
      BY <1>0, <1>d, <3>1, <3>3, <3>5 DEF LocalsFit, BeforeDelete, AfterInsert
    <3>7. Moved
      BY <3>3, <3>4, <3>5, <3>6, CallMoves DEF Moved
    <3>8. Kept
      BY <1>0, <3>1, <3>2, <3>3 DEF Kept, ghosts
    <3> QED
      BY <3>7, <3>8 DEF Moved, Kept, ServiceShape
  <2> QED
    BY <2>1, <2>2
<1>12. CASE SaveIni(c) \/ CreateTable(c) \/ SaveFile(c) \/ SavePath(c)
  <2>1. call[c].pc \in AfterInsert /\ call[c].new # 0 /\ call[c].new \in Id /\ inserted' = inserted
    BY <1>0, <1>d, <1>12
    DEF SaveIni, CreateTable, SaveFile, SavePath, At, AfterInsert, LocalsFit, rows
  <2>2. PICK pc \in {"columns", "file", "path", "cleanup"} : Goto(c, pc)
    BY <1>12 DEF SaveIni, CreateTable, SaveFile, SavePath
  <2>3. pc \in Places /\ pc \notin {"find"} \cup BeforeDelete
    BY <2>2 DEF Places, BeforeDelete, AfterInsert
  <2>4. Moved
    BY <1>b, <2>1, <2>2, <2>3
  <2>5. dict' \in [Name -> Dicts]
    <3>1. dict[call[c].name] \in Dicts /\ call[c].new \in 0..MaxRows
      BY <1>0, <1>d, <2>1, Bounds
    <3>2. [dict[call[c].name] EXCEPT !.id = call[c].new, !.password = call[c].password] \in Dicts
      BY <1>d, <3>1 DEF Dicts
    <3>3. [dict[call[c].name] EXCEPT !.files = @ \cup {call[c].new}] \in Dicts
      BY <2>1, <3>1 DEF Dicts
    <3> DEFINE d1 == [dict[call[c].name] EXCEPT !.id = call[c].new, !.password = call[c].password]
               d2 == [dict[call[c].name] EXCEPT !.files = @ \cup {call[c].new}]
    <3>4. \/ dict' = dict
          \/ dict' = [dict EXCEPT ![call[c].name] = d1]
          \/ dict' = [dict EXCEPT ![call[c].name] = d2]
      BY <1>0, <1>d, <1>12 DEF SaveIni, CreateTable, SaveFile, SavePath
    <3> HIDE DEF d1, d2
    <3> QED
      BY <1>0, <3>2, <3>3, <3>4 DEF d1, d2
  <2>6. row' \in [Id -> Rows]
    <3>1. \A t \in {"created", "described"} : [row[call[c].new] EXCEPT !.table = t] \in Rows
      BY <1>0, <2>1 DEF Rows
    <3>2. \/ row' = row
          \/ row' = [row EXCEPT ![call[c].new] = [row[call[c].new] EXCEPT !.table = "created"]]
          \/ row' = [row EXCEPT ![call[c].new] = [row[call[c].new] EXCEPT !.table = "described"]]
      BY <1>0, <1>12, <2>1 DEF SaveIni, CreateTable, SaveFile, SavePath, rows
    <3> QED
      BY <1>0, <3>1, <3>2
  <2>7. Kept
    BY <1>0, <1>12, <2>1, <2>5, <2>6
    DEF SaveIni, CreateTable, SaveFile, SavePath, ghosts, Kept
  <2> QED
    BY <2>4, <2>7 DEF Moved, Kept, ServiceShape
<1> QED
  BY <1>1, <1>2, <1>3, <1>4, <1>5, <1>6, <1>7, <1>8, <1>9, <1>10, <1>11, <1>12 DEF Service

\* What the steps of the service leave alone.
LEMMA ServiceFrame ==
    ASSUME NEW c \in Call, Service(c)
    PROVE  UNCHANGED <<queries, pool, truth, restarts>>
BY DEF Service, ServiceOnly, AskCreate, AskUpdate, AskDelete, FindTarget, Unmask, Test,
       RemoveDictionary, DeleteRow, FindDuplicate, Register, GetTables, TryNextName, InsertRow,
       SaveIni, CreateTable, SaveFile, SavePath, Cleanup, Fails

\* What the steps of a query leave alone.
LEMMA AskFrame ==
    ASSUME NEW q \in Query, Ask(q)
    PROVE  UNCHANGED <<rows, dict, call, temp, truth, restarts, ghosts>>
BY DEF Ask, QueryOnly, Prepare, Connect, Post, Reregister, PostAgain

LEMMA ServiceShapeFrame ==
    ASSUME ServiceShape, UNCHANGED <<rows, dict, call, temp, ghosts>>
    PROVE  ServiceShape'
BY DEF ServiceShape, rows, ghosts

LEMMA QueryShapeFrame ==
    ASSUME QueryShape, UNCHANGED <<queries, pool, truth>>
    PROVE  QueryShape'
BY DEF QueryShape, queries

LEMMA PasswordTypes ==
    ASSUME Shape
    PROVE  Passwords \subseteq 0..MaxPassword
BY DEF Passwords, Shape, ServiceShape, Rows, Dicts

LEMMA AskTypes ==
    ASSUME Shape, NEW q \in Query, Ask(q)
    PROVE  Shape'
<1>0. /\ pool \in 0..MaxPassword /\ cached \in [password : 0..MaxPassword, isConnected : BOOLEAN]
      /\ cut \subseteq Query /\ truth \in Password /\ cached.password \in 0..MaxPassword
      /\ cached.isConnected \in BOOLEAN
      /\ query \in [Query -> {"ready", "connect", "post", "reregister", "again", "failed"}]
  BY DEF Shape, QueryShape
<1>1. ServiceShape'
  BY AskFrame, ServiceShapeFrame DEF Shape
<1>2. truth' = truth
  BY AskFrame
<1>3. cached' \in [password : 0..MaxPassword, isConnected : BOOLEAN]
  <2>1. CASE Prepare(q)
    BY <1>0, <2>1, PasswordTypes DEF Prepare
  <2>2. CASE Connect(q)
    BY <1>0, <2>2 DEF Connect
  <2>3. CASE Post(q) \/ Reregister(q) \/ PostAgain(q)
    BY <1>0, <2>3 DEF Post, Reregister, PostAgain
  <2> QED
    BY <2>1, <2>2, <2>3 DEF Ask
<1>4. pool' \in 0..MaxPassword
  BY <1>0, Bounds DEF Ask, Prepare, Connect, Post, Reregister, PostAgain, RegisterPool
<1>5. cut' \subseteq Query
  BY <1>0 DEF Ask, Prepare, Connect, Post, Reregister, PostAgain, RegisterPool, Executes, QueryFails
<1>6. PICK how \in {"ready", "connect", "post", "reregister", "again", "failed"} : Ends(q, how)
  BY DEF Ask, Prepare, Connect, Post, Reregister, PostAgain, RegisterPool, Executes, QueryFails
<1>7. query' \in [Query -> {"ready", "connect", "post", "reregister", "again", "failed"}]
  BY <1>0, <1>6 DEF Ends
<1> QED
  BY <1>0, <1>1, <1>2, <1>3, <1>4, <1>5, <1>7 DEF Shape, QueryShape

LEMMA AroundTypes ==
    ASSUME Shape, ChangePassword \/ RestartBridge \/ RestartBackend
    PROVE  Shape'
<1>0. /\ call \in [Call -> Calls] /\ \A c \in Call : LocalsFit(call[c], inserted)
      /\ temp \subseteq Call /\ kept \subseteq Call /\ truth \in Password
      /\ query \in [Query -> {"ready", "connect", "post", "reregister", "again", "failed"}]
      /\ cut \subseteq Query /\ inserted \in Id /\ inserted \in Nat
  BY Bounds DEF Shape, ServiceShape, QueryShape, Id
<1>1. CASE ChangePassword
  <2>1. truth' \in Password
    BY <1>0, <1>1, Bounds DEF ChangePassword, Password
  <2> QED
    BY <1>1, <2>1, ServiceShapeFrame DEF ChangePassword, bridge, queries, Shape, QueryShape
<1>2. CASE RestartBridge
  <2>1. PICK lost \in SUBSET Requesting :
           /\ query' = [q \in Query |-> IF q \in lost THEN "ready" ELSE query[q]]
           /\ cut' = (cut \ lost) \cup {q \in Query \ lost : query[q] = "again"}
    BY <1>2 DEF RestartBridge
  <2>2. query' \in [Query -> {"ready", "connect", "post", "reregister", "again", "failed"}]
    BY <1>0, <2>1
  <2>3. cut' \subseteq Query
    BY <1>0, <2>1
  <2>4. QueryShape'
    BY <1>2, <2>2, <2>3, Bounds DEF RestartBridge, Shape, QueryShape
  <2>5. ServiceShape'
    BY <1>2 DEF RestartBridge, rows, Shape, ServiceShape
  <2> QED
    BY <2>4, <2>5 DEF Shape
<1>3. CASE RestartBackend
  <2>0. /\ call' = [c \in Call |-> IF IsActive(c) THEN [NoCall EXCEPT !.pc = "done"] ELSE call[c]]
        /\ query' = [q \in Query |-> IF q \in Requesting THEN "ready" ELSE query[q]]
    BY <1>3 DEF RestartBackend
  <2> DEFINE r == [NoCall EXCEPT !.pc = "done"]
  <2>1. r \in Calls
    BY Empties DEF Calls, Places
  <2>2. LocalsFit(r, inserted)
    BY <1>0 DEF LocalsFit, NoCall, BeforeDelete, AfterInsert
  <2> HIDE DEF r
  <2>3. call' \in [Call -> Calls] /\ \A c \in Call : LocalsFit(call'[c], inserted)
    BY <1>0, <2>0, <2>1, <2>2 DEF r
  <2>a. \A c \in Removing : call[c].target \in Id
    BY <1>0, Bounds DEF Removing, At, LocalsFit, BeforeDelete, Calls, Id
  <2>b. stripped' \subseteq Id
    BY <1>3, <2>a DEF RestartBackend, StopsBetween, Shape, ServiceShape
  <2>4. kept' \subseteq Call /\ UNCHANGED <<rows, dict, temp, pool, truth, whole, crossed, left>>
    BY <1>0, <1>3 DEF RestartBackend, bridge
  <2>5. ServiceShape'
    BY <2>3, <2>4, <2>b DEF rows, Shape, ServiceShape
  <2>6. query' \in [Query -> {"ready", "connect", "post", "reregister", "again", "failed"}]
    BY <1>0, <2>0
  <2>7. QueryShape'
    BY <1>3, <2>4, <2>6, Bounds DEF RestartBackend, Shape, QueryShape
  <2> QED
    BY <2>5, <2>7 DEF Shape
<1> QED
  BY <1>1, <1>2, <1>3

LEMMA NextShape == Shape /\ [Next]_vars => Shape'
<1> SUFFICES ASSUME Shape, [Next]_vars PROVE Shape'
  OBVIOUS
<1>1. ASSUME NEW c \in Call, Service(c)
      PROVE  Shape'
  BY <1>1, ServiceTypes, ServiceFrame, QueryShapeFrame DEF Shape
<1>2. CASE UNCHANGED vars
  BY <1>2, ServiceShapeFrame, QueryShapeFrame DEF Shape, vars, bridge
<1> QED
  BY <1>1, <1>2, AskTypes, AroundTypes DEF Next

LEMMA ShapeAlways == Spec => []Shape
BY InitShape, NextShape, PTL DEF Spec

----------------------------------------------------------------------------
(* Temporary connections. *)

LEMMA ServiceHolds ==
    ASSUME Shape, Held, NEW c \in Call, Service(c)
    PROVE  Held'
<1>0. /\ call \in [Call -> Calls] /\ temp \subseteq Call /\ ServiceShape
      /\ \A d \in Call : d # c => call'[d] = call[d]
  BY ServiceTypes DEF Shape, ServiceShape
<1>1. CASE Register(c)
  <2>1. CASE Goto(c, "tables")
    <3>1. temp' = temp \cup {c} /\ kept \subseteq kept' /\ call'[c].pc = "tables"
      BY <1>0, <1>1, <2>1 DEF Register, Goto, Calls
    <3> QED
      BY <1>0, <3>1 DEF Held, InTry
  <2>2. CASE ~Goto(c, "tables")
    BY <1>0, <1>1, <2>2 DEF Register, Held
  <2> QED
    BY <2>1, <2>2
<1>2. CASE Cleanup(c)
  BY <1>0, <1>2 DEF Cleanup, Held
<1>3. CASE /\ ~Register(c) /\ ~Cleanup(c)
  <2>1. temp' = temp /\ kept' = kept
    BY <1>3
    DEF Service, AskCreate, AskUpdate, AskDelete, FindTarget, Unmask, Test, RemoveDictionary,
        DeleteRow, FindDuplicate, GetTables, TryNextName, InsertRow, SaveIni, CreateTable,
        SaveFile, SavePath, Fails, ghosts
  <2>2. ASSUME call[c].pc \in InTry \cup {"cleanup"}
        PROVE  call'[c].pc \in InTry \cup {"cleanup"}
    <3>1. \/ GetTables(c) \/ TryNextName(c) \/ InsertRow(c) \/ SaveIni(c) \/ CreateTable(c)
          \/ SaveFile(c) \/ SavePath(c) \/ Fails(c)
      BY <1>3, <2>2
      DEF Service, AskCreate, AskUpdate, AskDelete, FindTarget, Unmask, Test, RemoveDictionary,
          DeleteRow, FindDuplicate, InTry, At
    <3> QED
      BY <1>0, <2>2, <3>1
      DEF GetTables, TryNextName, InsertRow, SaveIni, CreateTable, SaveFile, SavePath, Fails,
          Goto, Done, InTry, At, Calls
  <2> QED
    BY <1>0, <2>1, <2>2 DEF Held
<1> QED
  BY <1>1, <1>2, <1>3

\* A call that is over has given its temporary connection back.
THEOREM ConnectionsGivenBack == Spec => []NothingKept
<1>1. Init => Held
  BY DEF Init, Held
<1>2. Shape /\ Held /\ [Next]_vars => Held'
  <2> SUFFICES ASSUME Shape, Held, [Next]_vars PROVE Held'
    OBVIOUS
  <2>1. ASSUME UNCHANGED <<call, temp, kept>>
        PROVE  Held'
    BY <2>1 DEF Held
  <2>2. CASE ChangePassword \/ UNCHANGED vars
    BY <2>1, <2>2 DEF ChangePassword, vars, bridge, ghosts
  <2>3. ASSUME NEW q \in Query, Ask(q)
        PROVE  Held'
    BY <2>1, <2>3, AskFrame DEF ghosts
  <2>4. CASE RestartBridge
    BY <2>4 DEF RestartBridge, Held
  <2>5. CASE RestartBackend
    <3>1. \A c \in Call : ~IsActive(c) => call'[c] = call[c]
      BY <2>5 DEF RestartBackend
    <3>2. temp' = temp /\ kept' = kept \cup {c \in temp : IsActive(c)}
      BY <2>5 DEF RestartBackend, bridge
    <3> QED
      BY <3>1, <3>2 DEF Held, Shape, ServiceShape
  <2> QED
    BY <2>2, <2>3, <2>4, <2>5, ServiceHolds DEF Next
<1>3. Held => NothingKept
  BY DEF Held, NothingKept, IsActive, InTry
<1> QED
  BY <1>1, <1>2, <1>3, ShapeAlways, PTL DEF Spec

----------------------------------------------------------------------------
(* Passwords and pools. *)

\* Rows and directories get the password of a call that tested it.
LEMMA ServiceWrites ==
    ASSUME ServiceShape, NEW c \in Call, Service(c)
    PROVE  /\ \A i \in Id : row'[i] # NoRow =>
                 \/ row[i] # NoRow /\ row'[i].password = row[i].password /\ row'[i].name = row[i].name
                 \/ call[c].pc = "insert" /\ row'[i].password = call[c].password
           /\ \A n \in Name : dict'[n].id # 0 =>
                 \/ dict'[n].id = dict[n].id /\ dict'[n].password = dict[n].password
                 \/ call[c].pc = "ini" /\ dict'[n].password = call[c].password
<1>0. /\ row \in [Id -> Rows] /\ dict \in [Name -> Dicts] /\ call[c] \in Calls
      /\ inserted \in Id /\ LocalsFit(call[c], inserted) /\ inserted \in Nat /\ inserted <= MaxRows
  BY Bounds DEF ServiceShape, Id
<1>1. CASE RemoveDictionary(c)
  <2>1. row' = row /\ \A n \in Name : dict'[n] = dict[n] \/ dict'[n] = NoDict
    BY <1>0, <1>1 DEF RemoveDictionary, rows
  <2> QED
    BY <2>1 DEF NoDict
<1>2. CASE DeleteRow(c)
  <2>1. dict' = dict /\ \A i \in Id : row'[i] = row[i] \/ row'[i] = NoRow
    BY <1>0, <1>2 DEF DeleteRow
  <2> QED
    BY <2>1
<1>3. CASE InsertRow(c)
  <2>1. CASE IsRefused(call[c].schema)
    BY <1>3, <2>1 DEF InsertRow, rows
  <2>2. CASE ~IsRefused(call[c].schema)
    <3> DEFINE new == [name |-> call[c].name, schema |-> call[c].schema,
                       password |-> call[c].password, table |-> "none"]
    <3>1. /\ row' = [row EXCEPT ![inserted'] = new] /\ dict' = dict /\ call[c].pc = "insert"
      BY <1>3, <2>2 DEF InsertRow, At
    <3>2. new.password = call[c].password
      OBVIOUS
    <3> HIDE DEF new
    <3> QED
      BY <1>0, <3>1, <3>2
  <2> QED
    BY <2>1, <2>2
<1>4. CASE SaveIni(c)
  <2> DEFINE n == call[c].name
             d == [dict[n] EXCEPT !.id = call[c].new, !.password = call[c].password]
  <2>1. n \in Name /\ call[c].pc = "ini" /\ row' = row
    BY <1>0, <1>4 DEF SaveIni, At, rows, Calls
  <2>2. dict' = [dict EXCEPT ![n] = d]
    BY <1>0, <1>4, <2>1 DEF SaveIni
  <2>3. d.password = call[c].password
    BY <1>0, <2>1 DEF Dicts
  <2> HIDE DEF d
  <2> QED
    BY <1>0, <2>1, <2>2, <2>3
<1>5. CASE SaveFile(c)
  <2> DEFINE n == call[c].name
             d == [dict[n] EXCEPT !.files = @ \cup {call[c].new}]
  <2>1. n \in Name /\ row' = row
    BY <1>0, <1>5 DEF SaveFile, rows, Calls
  <2>2. dict' = [dict EXCEPT ![n] = d]
    BY <1>0, <1>5, <2>1 DEF SaveFile
  <2>3. d.password = dict[n].password /\ d.id = dict[n].id
    BY <1>0, <2>1 DEF Dicts
  <2> HIDE DEF d
  <2> QED
    BY <1>0, <2>1, <2>2, <2>3
<1>6. CASE CreateTable(c) \/ SavePath(c)
  <2> DEFINE i == call[c].new
  <2>1. i \in Id /\ Stored(i) /\ dict' = dict
    BY <1>0, <1>6, Bounds DEF CreateTable, SavePath, At, LocalsFit, AfterInsert, Calls, Id
  <2>2. PICK t : row' = [row EXCEPT ![i] = [row[i] EXCEPT !.table = t]]
    BY <1>0, <1>6, <2>1 DEF CreateTable, SavePath
  <2>3. /\ [row[i] EXCEPT !.table = t].password = row[i].password
        /\ [row[i] EXCEPT !.table = t].name = row[i].name
    BY <1>0, <2>1 DEF Rows
  <2>4. \A j \in Id : row'[j] = IF j = i THEN [row[i] EXCEPT !.table = t] ELSE row[j]
    BY <1>0, <2>2
  <2> QED
    BY <2>1, <2>3, <2>4 DEF Stored
<1>7. CASE /\ ~RemoveDictionary(c) /\ ~DeleteRow(c) /\ ~InsertRow(c) /\ ~SaveIni(c)
           /\ ~SaveFile(c) /\ ~CreateTable(c) /\ ~SavePath(c)
  <2>1. row' = row /\ dict' = dict
    BY <1>7
    DEF Service, AskCreate, AskUpdate, AskDelete, FindTarget, Unmask, Test, FindDuplicate,
        Register, GetTables, TryNextName, Cleanup, Fails, rows
  <2> QED
    BY <2>1
<1> QED
  BY <1>1, <1>2, <1>3, <1>4, <1>5, <1>6, <1>7

\* A call gets to its insertion with the password of its last test.
LEMMA CallTested ==
    ASSUME ServiceShape, NEW c \in Call, Service(c), call'[c].pc \in {"register"} \cup InTry
    PROVE  /\ call'[c].password = call[c].password
           /\ call[c].pc \in {"register"} \cup InTry \/ call[c].password = truth
<1>0. call \in [Call -> Calls] /\ call[c] \in Calls
  BY DEF ServiceShape
<1>1. \A pc \in Places : Goto(c, pc) => call'[c].pc = pc /\ call'[c].password = call[c].password
  BY <1>0 DEF Goto, Calls
<1>2. ~Done(c)
  BY <1>0 DEF Done, NoCall, InTry
<1>3. CASE AskCreate(c) \/ AskUpdate(c) \/ AskDelete(c)
  <2>1. ASSUME AskCreate(c)
        PROVE  call'[c].pc = "duplicate"
    BY <1>0, <2>1 DEF AskCreate, NoCall
  <2>2. ASSUME AskUpdate(c)
        PROVE  call'[c].pc = "find"
    BY <1>0, <2>2 DEF AskUpdate, NoCall
  <2>3. ASSUME AskDelete(c)
        PROVE  call'[c].pc = "find"
    BY <1>0, <2>3 DEF AskDelete, NoCall
  <2> QED
    BY <1>3, <2>1, <2>2, <2>3 DEF InTry
<1>4. CASE FindTarget(c) \/ Unmask(c) \/ DeleteRow(c)
  <2>1. call'[c].pc \in {"remove", "unmask", "test", "duplicate"}
    BY <1>0, <1>2, <1>4 DEF FindTarget, Unmask, DeleteRow, Calls
  <2> QED
    BY <2>1 DEF InTry
<1>5. CASE RemoveDictionary(c) \/ FindDuplicate(c) \/ Cleanup(c)
  <2>1. call'[c].pc \in {"delete", "probe"}
    BY <1>1, <1>2, <1>5 DEF RemoveDictionary, FindDuplicate, Cleanup, Places, BeforeDelete
  <2> QED
    BY <2>1 DEF InTry
<1>6. CASE Test(c)
  <2>1. call[c].password = truth /\ (Goto(c, "remove") \/ Goto(c, "register"))
    BY <1>2, <1>6 DEF Test
  <2> QED
    BY <1>1, <2>1 DEF Places, BeforeDelete
<1>7. CASE Register(c) \/ GetTables(c) \/ SaveIni(c) \/ CreateTable(c) \/ SaveFile(c)
           \/ SavePath(c) \/ Fails(c)
  <2>1. \E pc \in {"tables", "insert", "columns", "file", "path", "cleanup"} : Goto(c, pc)
    BY <1>2, <1>7 DEF Register, GetTables, SaveIni, CreateTable, SaveFile, SavePath, Fails
  <2>2. call[c].pc \in {"register"} \cup InTry
    BY <1>2, <1>7 DEF Register, GetTables, SaveIni, CreateTable, SaveFile, SavePath, Fails, At, InTry
  <2> QED
    BY <1>1, <2>1, <2>2 DEF Places, AfterInsert
<1>8. CASE TryNextName(c) \/ InsertRow(c)
  <2>1. call[c].pc = "insert"
    BY <1>8 DEF TryNextName, InsertRow, At
  <2>2. call'[c].password = call[c].password
    BY <1>0, <1>1, <1>8 DEF TryNextName, InsertRow, Calls, Places
  <2> QED
    BY <2>1, <2>2 DEF InTry
<1> QED
  BY <1>3, <1>4, <1>5, <1>6, <1>7, <1>8 DEF Service

LEMMA ServiceTested ==
    ASSUME Shape, Tested, NEW c \in Call, Service(c)
    PROVE  Tested'
<1>0. /\ truth' = truth /\ truth \in 1..truth /\ ServiceShape
  BY ServiceFrame, Bounds DEF Shape, QueryShape, Password
<1>1. call[c].pc \in {"register"} \cup InTry => call[c].password \in 1..truth
  BY DEF Tested
<1>2. ASSUME NEW i \in Id, row'[i] # NoRow
      PROVE  row'[i].password \in 1..truth
  BY <1>0, <1>1, <1>2, ServiceWrites DEF Tested, Stored, InTry
<1>3. ASSUME NEW n \in Name, dict'[n].id # 0
      PROVE  dict'[n].password \in 1..truth
  BY <1>0, <1>1, <1>3, ServiceWrites DEF Tested, InTry
<1>4. ASSUME NEW d \in Call, call'[d].pc \in {"register"} \cup InTry
      PROVE  call'[d].password \in 1..truth
  <2>1. CASE d = c
    BY <1>0, <1>1, <1>4, <2>1, CallTested
  <2>2. CASE d # c
    BY <1>0, <1>4, <2>2, ServiceTypes DEF Tested
  <2> QED
    BY <2>1, <2>2
<1> QED
  BY <1>0, <1>2, <1>3, <1>4 DEF Tested, Stored

LEMMA NewTruthTests ==
    ASSUME Shape, Tested, ChangePassword
    PROVE  Tested'
<1>1. truth \in Nat /\ truth' = truth + 1 /\ UNCHANGED <<row, dict, call>>
  BY Bounds DEF ChangePassword, rows, Shape, QueryShape, Password
<1>2. 1..truth \subseteq 1..truth'
  BY <1>1
<1> QED
  BY <1>1, <1>2 DEF Tested, Stored

LEMMA NextTested ==
    ASSUME Shape, Tested, [Next]_vars
    PROVE  Tested'
<1>1. ASSUME UNCHANGED <<row, dict, call, truth>>
      PROVE  Tested'
  BY <1>1 DEF Tested, Stored
<1>2. CASE RestartBridge \/ UNCHANGED vars
  BY <1>1, <1>2 DEF RestartBridge, vars, rows
<1>3. ASSUME NEW q \in Query, Ask(q)
      PROVE  Tested'
  BY <1>1, <1>3, AskFrame DEF rows
<1>4. CASE RestartBackend
  <2>1. /\ call' = [c \in Call |-> IF IsActive(c) THEN [NoCall EXCEPT !.pc = "done"] ELSE call[c]]
        /\ UNCHANGED <<row, dict, truth>>
    BY <1>4 DEF RestartBackend, rows
  <2>2. \A c \in Call : call'[c].pc = "done" \/ call'[c] = call[c]
    BY <2>1 DEF NoCall
  <2> QED
    BY <2>1, <2>2 DEF Tested, Stored, InTry
<1> QED
  BY <1>2, <1>3, <1>4, NewTruthTests, ServiceTested DEF Next

LEMMA TestedAlways == Spec => []Tested
<1>1. Init => Tested
  <2> SUFFICES ASSUME Init PROVE Tested
    OBVIOUS
  <2>1. \A i \in Id : Stored(i) => row[i].password = 1
    BY DEF Init, Stored, NoRow
  <2>2. \A n \in Name : dict[n].id # 0 => dict[n].password = 1
    BY DEF Init, NoDict
  <2> QED
    BY <2>1, <2>2, Bounds DEF Init, Tested, NoCall, InTry
<1> QED
  BY <1>1, NextTested, ShapeAlways, PTL DEF Spec

LEMMA AskServed ==
    ASSUME Shape, Tested, Served, NEW q \in Query, Ask(q)
    PROVE  Served'
<1>0. /\ cached \in [password : 0..MaxPassword, isConnected : BOOLEAN] /\ pool \in 0..MaxPassword
      /\ cached.password \in Nat /\ pool \in Nat /\ truth \in Nat /\ truth # 0
      /\ cached.isConnected \in BOOLEAN /\ cut \subseteq Query
      /\ query \in [Query -> {"ready", "connect", "post", "reregister", "again", "failed"}]
  BY Bounds DEF Shape, QueryShape, Password
<1>1. truth' = truth
  BY AskFrame
<1>2. /\ cached.password <= truth
      /\ cached.isConnected => cached.password # 0 /\ pool \in {0, cached.password}
      /\ \A x \in Query :
          /\ query[x] # "failed"
          /\ query[x] = "connect" => cached.password # 0
          /\ query[x] \in {"post", "reregister", "again"} => cached.isConnected
          /\ query[x] = "again" /\ x \notin cut /\ cached.password = truth => pool # 0
  BY DEF Served
<1>3. PICK how \in {"ready", "connect", "post", "reregister", "again", "failed"} : Ends(q, how)
  BY DEF Ask, Prepare, Connect, Post, Reregister, PostAgain, RegisterPool, Executes, QueryFails
<1>4. query'[q] = how /\ \A x \in Query : x # q => query'[x] = query[x]
  BY <1>0, <1>3 DEF Ends
<1>5. CASE Prepare(q)
  <2>1. PICK p \in Passwords :
           cached' = IF cached.password = 0 THEN [cached EXCEPT !.password = p] ELSE cached
    BY <1>5 DEF Prepare
  <2>2. p \in 1..truth
    BY <2>1 DEF Passwords, Tested
  <2>3. /\ cached'.isConnected = cached.isConnected /\ cached'.password # 0 /\ cached'.password <= truth
        /\ cached.password # 0 => cached' = cached
    BY <1>0, <1>2, <2>1, <2>2
  <2>4. query'[q] = IF cached.isConnected THEN "post" ELSE "connect"
    BY <1>0, <1>5 DEF Prepare, Ends
  <2>5. pool' = pool /\ cut' = cut
    BY <1>5 DEF Prepare
  <2>6. \A x \in Query : query[x] = "again" => cached' = cached
    BY <1>2, <2>3
  <2>7. cached.isConnected => cached' = cached
    BY <1>2, <2>3
  <2>8. /\ cached'.password <= truth'
        /\ cached'.isConnected => cached'.password # 0 /\ pool' \in {0, cached'.password}
    BY <1>1, <1>2, <2>3, <2>5, <2>7
  <2>9. ASSUME NEW x \in Query
        PROVE  /\ query'[x] # "failed"
               /\ query'[x] = "connect" => cached'.password # 0
               /\ query'[x] \in {"post", "reregister", "again"} => cached'.isConnected
               /\ query'[x] = "again" /\ x \notin cut' /\ cached'.password = truth' => pool' # 0
    BY <1>1, <1>2, <1>4, <2>3, <2>4, <2>5, <2>6
  <2> QED
    BY <2>8, <2>9 DEF Served
<1>6. CASE Connect(q)
  <2>1. /\ query[q] = "connect" /\ RegisterPool(q, "post")
        /\ cached' = [cached EXCEPT !.isConnected = @ \/ cached.password = truth]
    BY <1>6 DEF Connect
  <2>2. cached'.password = cached.password
        /\ cached'.isConnected = (cached.isConnected \/ cached.password = truth)
    BY <1>0, <2>1
  <2>3. CASE cached.password = truth
    <3>1. pool' = cached.password /\ query'[q] = "post" /\ cut' = cut
      BY <1>0, <2>1, <2>3 DEF RegisterPool, Ends
    <3> QED
      BY <1>0, <1>1, <1>2, <1>4, <2>2, <2>3, <3>1 DEF Served
  <2>4. CASE cached.password # truth
    <3>1. pool' = 0 /\ query'[q] = "ready" /\ cut' = cut \ {q}
      BY <1>0, <2>1, <2>4 DEF RegisterPool, QueryFails, Ends
    <3> QED
      BY <1>0, <1>1, <1>2, <1>4, <2>2, <2>4, <3>1 DEF Served
  <2> QED
    BY <2>3, <2>4
<1>7. CASE Reregister(q)
  <2>1. query[q] = "reregister" /\ RegisterPool(q, "again") /\ cached' = cached
    BY <1>7 DEF Reregister
  <2>2. CASE cached.password = truth
    <3>1. pool' = cached.password /\ query'[q] = "again" /\ cut' = cut
      BY <1>0, <2>1, <2>2 DEF RegisterPool, Ends
    <3> QED
      BY <1>0, <1>1, <1>2, <1>4, <2>1, <2>2, <3>1 DEF Served
  <2>3. CASE cached.password # truth
    <3>1. pool' = 0 /\ query'[q] = "ready" /\ cut' = cut \ {q}
      BY <1>0, <2>1, <2>3 DEF RegisterPool, QueryFails, Ends
    <3> QED
      BY <1>0, <1>1, <1>2, <1>4, <2>1, <2>3, <3>1 DEF Served
  <2> QED
    BY <2>2, <2>3
<1>8. CASE Post(q) \/ PostAgain(q)
  <2>1. query[q] \in {"post", "again"} /\ cached' = cached /\ pool' = pool
    BY <1>8 DEF Post, PostAgain
  <2>2. pool \in {0, cached.password} /\ cached.isConnected
    BY <1>2, <2>1
  <2>3. \/ query'[q] = "ready" /\ cut' = cut \ {q}
        \/ query'[q] = "reregister" /\ cut' = cut
    <3>1. CASE query[q] = "post" /\ pool = 0
      BY <1>0, <1>8, <3>1 DEF Post, PostAgain, Ends
    <3>2. CASE query[q] = "again" /\ pool = 0
      <4>1. QueryFails(q)
        BY <1>8, <3>2 DEF Post, PostAgain
      <4>2. q \in cut \/ cached.password # truth
        BY <1>2, <3>2
      <4> QED
        BY <1>0, <4>1, <4>2 DEF QueryFails, Ends
    <3>3. CASE pool # 0
      <4>1. Executes(q)
        BY <1>8, <3>3 DEF Post, PostAgain
      <4>2. pool = cached.password
        BY <2>2, <3>3
      <4> QED
        BY <1>0, <4>1, <4>2 DEF Executes, QueryFails, Ends
    <3> QED
      BY <2>1, <3>1, <3>2, <3>3
  <2> QED
    BY <1>1, <1>2, <1>4, <2>1, <2>2, <2>3 DEF Served
<1> QED
  BY <1>5, <1>6, <1>7, <1>8 DEF Ask

\* A query fails by a restart or a newer password only.
THEOREM QueriesGoOn == Spec => []QueriesSurvive
<1>1. Init => Served
  BY DEF Init, Served
<1>2. Shape /\ Tested /\ Served /\ [Next]_vars => Served'
  <2> SUFFICES ASSUME Shape, Tested, Served, [Next]_vars PROVE Served'
    OBVIOUS
  <2>0. /\ cached.password \in Nat /\ truth \in Nat /\ cut \subseteq Query
        /\ query \in [Query -> {"ready", "connect", "post", "reregister", "again", "failed"}]
    BY Bounds DEF Shape, QueryShape, Password
  <2>1. ASSUME UNCHANGED <<queries, pool, truth>>
        PROVE  Served'
    BY <2>1 DEF Served, queries
  <2>2. CASE UNCHANGED vars
    BY <2>1, <2>2 DEF vars, bridge
  <2>3. ASSUME NEW c \in Call, Service(c)
        PROVE  Served'
    BY <2>1, <2>3, ServiceFrame
  <2>4. CASE ChangePassword
    <3>1. truth' = truth + 1 /\ UNCHANGED <<cached, query, cut, pool>>
      BY <2>4 DEF ChangePassword, queries, bridge
    <3>2. cached.password <= truth' /\ cached.password # truth'
      BY <2>0, <3>1 DEF Served
    <3> QED
      BY <3>1, <3>2 DEF Served
  <2>5. CASE RestartBridge
    <3>1. PICK lost \in SUBSET Requesting :
             /\ query' = [q \in Query |-> IF q \in lost THEN "ready" ELSE query[q]]
             /\ cut' = (cut \ lost) \cup {q \in Query \ lost : query[q] = "again"}
      BY <2>5 DEF RestartBridge
    <3>2. pool' = 0 /\ UNCHANGED <<cached, truth>>
      BY <2>5 DEF RestartBridge
    <3>3. \A q \in Query : query'[q] = "ready" \/ query'[q] = query[q]
      BY <3>1
    <3>4. \A q \in Query : query'[q] = "again" => q \in cut'
      BY <3>1
    <3> QED
      BY <3>2, <3>3, <3>4 DEF Served
  <2>6. CASE RestartBackend
    <3>1. /\ query' = [q \in Query |-> IF q \in Requesting THEN "ready" ELSE query[q]]
          /\ cached' = [password |-> 0, isConnected |-> FALSE] /\ truth' = truth
      BY <2>6 DEF RestartBackend
    <3>2. \A q \in Query : query'[q] = "ready"
      BY <2>0, <3>1 DEF Requesting, Served
    <3> QED
      BY <2>0, <3>1, <3>2 DEF Served
  <2> QED
    BY <2>2, <2>3, <2>4, <2>5, <2>6, AskServed DEF Next
<1>3. Served => QueriesSurvive
  BY DEF Served, QueriesSurvive
<1> QED
  BY <1>1, <1>2, <1>3, TestedAlways, ShapeAlways, PTL DEF Spec

----------------------------------------------------------------------------
(* Dictionaries.  A call that deletes or describes a row is busy with it. *)

Busy == BeforeDelete \cup AfterInsert

Subject(c) == IF call[c].pc \in BeforeDelete THEN call[c].target ELSE call[c].new

LEMMA Pcs ==
    /\ BeforeDelete \cap AfterInsert = {}
    /\ {"find", "ready", "done", "duplicate", "probe", "register", "tables", "insert", "cleanup"}
           \cap Busy = {}
BY DEF Busy, BeforeDelete, AfterInsert

\* Under a name that nothing crossed, a busy call finds its row.
LEMMA OwnRow ==
    ASSUME Shape, Placed, AllFind, NEW c \in Call, call[c].pc \in Busy
    PROVE  /\ Subject(c) \in Id /\ WorksOn(c, Subject(c))
           /\ Stored(Subject(c)) => row[Subject(c)].name = call[c].name
           /\ call[c].name \notin crossed => Stored(Subject(c))
<1>1. /\ call[c] \in Calls /\ LocalsFit(call[c], inserted) /\ inserted \in 1..MaxRows
      /\ call[c].target \in 0..MaxRows /\ call[c].new \in 0..MaxRows
  BY DEF Shape, ServiceShape, Id, Calls
<1>2. Subject(c) \in Id
  BY <1>1, Bounds DEF LocalsFit, Busy, Subject, Id
<1>3. WorksOn(c, Subject(c))
  BY DEF WorksOn, IsActive, At, Subject, Busy, BeforeDelete, AfterInsert
<1>4. CallPlaced(c) /\ (call[c].name \notin crossed => Finds(c))
  BY DEF Placed, AllFind
<1> QED
  BY <1>2, <1>3, <1>4 DEF CallPlaced, Finds, Subject, Busy

\* No two calls are busy under such a name, nor with its row.
LEMMA BusyAlone ==
    ASSUME Shape, Placed, AllFind, NEW c \in Call, call[c].pc \in Busy, NEW d \in Call, d # c
    PROVE  /\ call[c].name \notin crossed /\ call[d].pc \in Busy => call[d].name # call[c].name
           /\ call[c].name \notin crossed => ~WorksOn(d, Subject(c))
<1>1. /\ Subject(c) \in Id /\ WorksOn(c, Subject(c))
      /\ Stored(Subject(c)) => row[Subject(c)].name = call[c].name
      /\ call[c].name \notin crossed => Stored(Subject(c))
  BY OwnRow
<1>2. \A i \in Id : WorksOn(c, i) /\ WorksOn(d, i) /\ Stored(i) => row[i].name \in crossed
  BY DEF Placed
<1>3. call[c].name \notin crossed => ~WorksOn(d, Subject(c))
  BY <1>1, <1>2
<1>4. ASSUME call[c].name \notin crossed, call[d].pc \in Busy, call[d].name = call[c].name
      PROVE  FALSE
  <2>1. /\ Subject(d) \in Id /\ WorksOn(d, Subject(d))
        /\ Stored(Subject(d)) /\ row[Subject(d)].name = call[c].name
    BY <1>4, OwnRow
  <2>2. Subject(d) = Subject(c)
    BY <1>1, <1>4, <2>1 DEF Placed
  <2> QED
    BY <1>3, <1>4, <2>1, <2>2
<1> QED
  BY <1>3, <1>4

\* A row whose name nothing crossed is the row of the call busy under its name.
LEMMA OwnName ==
    ASSUME Shape, Placed, AllFind, NEW c \in Call, call[c].pc \in Busy,
           call[c].name \notin crossed, NEW i \in Id, Stored(i), row[i].name = call[c].name
    PROVE  i = Subject(c)
BY OwnRow DEF Placed

(* Which rows may be without their directory. *)

Excused(j) == j \in stripped \/ IsRemoving(j)

\* A row stays excused if the call that works on its removal stands still, or
\* stops and is written down.
LEMMA ExcusesLast ==
    ASSUME stripped \subseteq stripped', NEW j, Excused(j),
           \A d \in Call : call[d].pc = "delete" /\ call[d].target = j =>
              call'[d] = call[d] \/ j \in stripped'
    PROVE  Excused(j)'
<1>1. CASE j \in stripped
  BY <1>1 DEF Excused
<1>2. CASE IsRemoving(j)
  BY <1>2 DEF Excused, IsRemoving, Removing, At
<1> QED
  BY <1>1, <1>2 DEF Excused

\* A row nothing excuses has its directory.
LEMMA WholeFits ==
    ASSUME DictionariesFit, NEW i \in whole, row[i].name \notin crossed, ~Excused(i)
    PROVE  /\ dict[row[i].name].id = i /\ dict[row[i].name].password = row[i].password
           /\ i \in dict[row[i].name].files
BY DEF DictionariesFit, Excused

\* A move to where a call is busy with nothing new.
FreeMove(d) ==
    /\ call'[d].new \in {0, call[d].new}
    /\ call'[d].pc = "find" => call'[d].new = 0
    /\ \A i \in Id : WorksOn(d, i)' => WorksOn(d, i)
    /\ call'[d].pc \notin AfterInsert /\ call'[d].pc # "delete"
    /\ call'[d].pc \in BeforeDelete =>
          /\ call[d].pc \in BeforeDelete /\ call'[d].target = call[d].target
          /\ call'[d].name = call[d].name

LEMMA MoveKeeps ==
    ASSUME Shape, DatasourceInv, UNCHANGED <<rows, dict, whole, crossed, left>>,
           stripped \subseteq stripped',
           \A d \in Call : \/ call'[d] = call[d]
                          \/ /\ FreeMove(d)
                             /\ call[d].pc = "delete" => call[d].target \in stripped'
    PROVE  DatasourceInv'
<1> USE DEF FreeMove
<1>1. UNCHANGED <<row, inserted>>
  BY DEF rows
<1>2. \A d \in Call, i \in Id : WorksOn(d, i)' => WorksOn(d, i)
  BY DEF WorksOn, IsActive, At
<1>3. \A d \in Call : CallPlaced(d)'
  BY <1>1 DEF DatasourceInv, Placed, CallPlaced, Stored
<1>4. \A c, d \in Call : call'[c].new = call'[d].new /\ call'[c].new # 0 => c = d
  BY DEF DatasourceInv, Placed
<1>5. Placed'
  BY <1>1, <1>2, <1>3, <1>4 DEF DatasourceInv, Placed, Stored
<1>6. AllFind'
  <2> SUFFICES ASSUME NEW d \in Call, call'[d].name \notin crossed PROVE Finds(d)'
    BY DEF AllFind
  <2>1. CASE call'[d] = call[d]
    BY <1>1, <2>1 DEF DatasourceInv, AllFind, Finds, Stored
  <2>2. CASE call'[d].pc \in BeforeDelete
    BY <1>1, <2>2, Pcs DEF DatasourceInv, AllFind, Finds, Stored, AfterInsert
  <2>3. CASE call'[d] # call[d] /\ call'[d].pc \notin BeforeDelete
    BY <2>3 DEF Finds, AfterInsert
  <2> QED
    BY <2>1, <2>2, <2>3
<1>7. DictionariesFit'
  <2>1. \A j \in whole : Excused(j) => Excused(j)'
    BY ExcusesLast
  <2> QED
    BY <1>1, <2>1 DEF DatasourceInv, DictionariesFit, Excused, Stored
<1> QED
  BY <1>5, <1>6, <1>7 DEF DatasourceInv

LEMMA DoneIsFree ==
    ASSUME Shape, NEW c \in Call, Done(c)
    PROVE  FreeMove(c)
<1>1. call'[c].pc = "done" /\ call'[c].new = 0
  BY DEF Done, NoCall, Shape, ServiceShape
<1> QED
  BY <1>1 DEF FreeMove, WorksOn, IsActive, At, BeforeDelete, AfterInsert

LEMMA GotoIsFree ==
    ASSUME Shape, NEW c \in Call, NEW pc \in {"remove", "register", "probe", "tables", "insert", "cleanup"},
           Goto(c, pc), call[c].pc \notin {"find", "ready", "done"},
           pc = "remove" => call[c].pc = "test"
    PROVE  FreeMove(c)
<1>1. /\ call'[c].pc = pc /\ call'[c].name = call[c].name /\ call'[c].new = call[c].new
      /\ call'[c].target = call[c].target
  BY DEF Goto, Shape, ServiceShape, Calls
<1>2. \A i \in Id : WorksOn(c, i)' => WorksOn(c, i)
  BY <1>1 DEF WorksOn, IsActive, At
<1> QED
  BY <1>1, <1>2 DEF FreeMove, BeforeDelete, AfterInsert

\* The steps that only read, test or give back.
LEMMA QuietKeeps ==
    ASSUME Shape, DatasourceInv, NEW c \in Call, Service(c),
           UNCHANGED <<rows, dict, whole, crossed, left>>,
           \/ AskCreate(c) \/ AskUpdate(c) \/ AskDelete(c) \/ (FindTarget(c) /\ Done(c))
           \/ Unmask(c) \/ Test(c) \/ FindDuplicate(c) \/ Register(c) \/ GetTables(c)
           \/ TryNextName(c) \/ InsertRow(c) \/ Cleanup(c) \/ Fails(c)
    PROVE  DatasourceInv'
<1>0. /\ call \in [Call -> Calls] /\ call[c] \in Calls
      /\ \A d \in Call : d # c => call'[d] = call[d]
  BY ServiceTypes DEF Shape, ServiceShape
<1>a. /\ stripped \subseteq stripped'
      /\ call[c].pc = "delete" => call[c].target \in stripped'
  <2>1. CASE Fails(c)
    BY <2>1 DEF Fails, StopsBetween, Removing, At
  <2>2. CASE ~Fails(c)
    <3>1. call[c].pc # "delete"
      BY <2>2 DEF AskCreate, AskUpdate, AskDelete, FindTarget, Unmask, Test, FindDuplicate, Register,
                  GetTables, TryNextName, InsertRow, Cleanup, At
    <3>2. stripped' = stripped
      BY <2>2 DEF AskCreate, AskUpdate, AskDelete, FindTarget, Unmask, Test, FindDuplicate, Register,
                  GetTables, TryNextName, InsertRow, Cleanup, ghosts
    <3> QED
      BY <3>1, <3>2
  <2> QED
    BY <2>1, <2>2
<1> SUFFICES FreeMove(c)
  BY <1>0, <1>a, MoveKeeps
<1>1. CASE Done(c)
  BY <1>1, DoneIsFree
<1>2. CASE AskCreate(c)
  <2>1. call'[c].pc = "duplicate" /\ call'[c].new = 0 /\ call'[c].target = 0
    BY <1>0, <1>2 DEF AskCreate, NoCall
  <2>2. 0 \notin Id
    BY DEF Id
  <2> QED
    BY <2>1, <2>2 DEF FreeMove, WorksOn, BeforeDelete, AfterInsert
<1>3. CASE AskUpdate(c) \/ AskDelete(c)
  <2>1. call'[c].pc = "find" /\ call'[c].new = 0
    <3>1. CASE AskUpdate(c)
      BY <1>0, <3>1 DEF AskUpdate, NoCall
    <3>2. CASE AskDelete(c)
      BY <1>0, <3>2 DEF AskDelete, NoCall
    <3> QED
      BY <1>3, <3>1, <3>2
  <2> QED
    BY <2>1 DEF FreeMove, WorksOn, At, BeforeDelete, AfterInsert
<1>4. CASE Unmask(c) /\ ~Done(c)
  <2> DEFINE p == row[call[c].target].password
  <2>1. call' = [call EXCEPT ![c].password = p, ![c].pc = "test"] /\ call[c].pc = "unmask"
    BY <1>4 DEF Unmask, At
  <2> HIDE DEF p
  <2>2. /\ call'[c].pc = "test" /\ call'[c].name = call[c].name /\ call'[c].new = call[c].new
        /\ call'[c].target = call[c].target
    BY <1>0, <2>1 DEF Calls
  <2>3. \A i \in Id : WorksOn(c, i)' => WorksOn(c, i)
    BY <2>1, <2>2 DEF WorksOn, IsActive, At
  <2> QED
    BY <2>1, <2>2, <2>3 DEF FreeMove, BeforeDelete, AfterInsert
<1>5. CASE (Test(c) \/ FindDuplicate(c) \/ Register(c) \/ GetTables(c) \/ Fails(c)) /\ ~Done(c)
  <2>1. PICK pc \in {"remove", "register", "probe", "tables", "insert", "cleanup"} :
           Goto(c, pc) /\ (pc = "remove" => call[c].pc = "test")
    BY <1>5 DEF Test, FindDuplicate, Register, GetTables, Fails, At
  <2>2. call[c].pc \notin {"find", "ready", "done"}
    BY <1>5 DEF Test, FindDuplicate, Register, GetTables, Fails, At, InTry
  <2> QED
    BY <2>1, <2>2, GotoIsFree
<1>6. CASE TryNextName(c)
  <2>1. call[c].pc = "insert"
    BY <1>6 DEF TryNextName, At
  <2>2. CASE Goto(c, "cleanup")
    BY <2>1, <2>2, GotoIsFree
  <2>3. CASE ~Goto(c, "cleanup")
    <3>1. call' = [call EXCEPT ![c].name = @ + 1]
      BY <1>6, <2>3 DEF TryNextName
    <3>2. /\ call'[c].pc = call[c].pc /\ call'[c].new = call[c].new
          /\ call'[c].target = call[c].target
      BY <1>0, <3>1 DEF Calls
    <3>3. \A i \in Id : WorksOn(c, i)' => WorksOn(c, i)
      BY <3>2 DEF WorksOn, IsActive, At
    <3> QED
      BY <2>1, <3>2, <3>3 DEF FreeMove, BeforeDelete, AfterInsert
  <2> QED
    BY <2>2, <2>3
<1>7. CASE InsertRow(c)
  <2>1. inserted' = inserted /\ inserted \in Nat
    BY Bounds DEF rows, Shape, ServiceShape, Id
  <2>2. Goto(c, "cleanup") /\ call[c].pc = "insert"
    BY <1>7, <2>1 DEF InsertRow, At
  <2> QED
    BY <2>2, GotoIsFree
<1>8. CASE Cleanup(c)
  BY <1>1, <1>8 DEF Cleanup
<1> QED
  BY <1>1, <1>2, <1>3, <1>4, <1>5, <1>6, <1>7, <1>8

\* A call finds its row, and crosses the name if another works on it.
LEMMA FindKeeps ==
    ASSUME Shape, DatasourceInv, NEW c \in Call, FindTarget(c), ~Done(c)
    PROVE  DatasourceInv'
<1> DEFINE i == call[c].target
<1> USE DEF DatasourceInv
<1>0. /\ call \in [Call -> Calls] /\ call[c] \in Calls /\ call[c].pc = "find" /\ i \in Id
      /\ \A d \in Call : d # c => call'[d] = call[d]
  <2>1. call[c].pc = "find" /\ LocalsFit(call[c], inserted) /\ inserted \in 1..MaxRows
    BY DEF FindTarget, At, Shape, ServiceShape, Id
  <2>2. i \in Id
    BY <2>1, Bounds DEF LocalsFit, Shape, ServiceShape, Calls, Id
  <2> QED
    BY <2>1, <2>2, ServiceTypes DEF Service, Shape, ServiceShape
<1>1. /\ Stored(i) /\ UNCHANGED <<row, inserted, dict, whole, left, stripped>>
      /\ crossed' = IF \E d \in Call \ {c} : WorksOn(d, i) THEN crossed \cup {row[i].name} ELSE crossed
      /\ \E pc \in {"remove", "unmask", "test"} :
            call' = [call EXCEPT ![c].name = row[i].name, ![c].pc = pc]
  BY DEF FindTarget, rows
<1>2. /\ call'[c].pc \in {"remove", "unmask", "test"} /\ call'[c].name = row[i].name
      /\ call'[c].target = i /\ call'[c].new = 0
  BY <1>0, <1>1 DEF Calls, Placed, CallPlaced
<1>3. call'[c].pc \in BeforeDelete /\ call'[c].pc \notin AfterInsert
  BY <1>2 DEF BeforeDelete, AfterInsert
<1>4. \A d \in Call \ {c}, j \in Id : WorksOn(d, j)' <=> WorksOn(d, j)
  BY <1>0 DEF WorksOn, IsActive, At
<1>5. \A j \in Id : WorksOn(c, j)' => j = i
  BY <1>2 DEF WorksOn, Id
<1>6. Placed'
  <2>1. \A d \in Call : CallPlaced(d)'
    BY <1>0, <1>1, <1>2, <1>3 DEF Placed, CallPlaced, Stored
  <2>2. \A d, e \in Call : call'[d].new = call'[e].new /\ call'[d].new # 0 => d = e
    BY <1>0, <1>2 DEF Placed
  <2>3. ASSUME NEW d \in Call, NEW e \in Call, NEW j \in Id,
               d # e, WorksOn(d, j)', WorksOn(e, j)', Stored(j)
        PROVE  row[j].name \in crossed'
    <3>1. CASE d # c /\ e # c
      BY <1>1, <1>4, <2>3, <3>1 DEF Placed
    <3>2. CASE d = c
      BY <1>1, <1>4, <1>5, <2>3, <3>2
    <3>3. CASE e = c
      BY <1>1, <1>4, <1>5, <2>3, <3>3
    <3> QED
      BY <3>1, <3>2, <3>3
  <2> QED
    BY <1>1, <2>1, <2>2, <2>3 DEF Placed, Stored
<1>7. AllFind'
  <2> SUFFICES ASSUME NEW d \in Call, call'[d].name \notin crossed' PROVE Finds(d)'
    BY DEF AllFind
  <2>1. CASE d = c
    BY <1>1, <1>2, <1>3, <2>1 DEF Finds, Stored, AfterInsert
  <2>2. CASE d # c
    BY <1>0, <1>1, <2>2 DEF AllFind, Finds, Stored
  <2> QED
    BY <2>1, <2>2
<1>8. DictionariesFit'
  <2>1. \A j \in whole : Excused(j) => Excused(j)'
    BY <1>0, <1>1, ExcusesLast
  <2> QED
    BY <1>1, <2>1 DEF DictionariesFit, Excused, Stored
<1> QED
  BY <1>6, <1>7, <1>8

\* A call removes a directory: only its own row had it.
LEMMA RemoveKeeps ==
    ASSUME Shape, DatasourceInv, NEW c \in Call, RemoveDictionary(c)
    PROVE  DatasourceInv'
<1> DEFINE n == call[c].name
           i == call[c].target
<1> USE DEF DatasourceInv
<1>0. /\ call \in [Call -> Calls] /\ call[c] \in Calls /\ dict \in [Name -> Dicts]
      /\ call[c].pc = "remove" /\ call[c].pc \in Busy /\ Subject(c) = i /\ n \in Name
  BY DEF RemoveDictionary, At, Busy, Subject, BeforeDelete, Shape, ServiceShape, Calls
<1>1. /\ UNCHANGED <<row, inserted, crossed, whole, stripped>> /\ Goto(c, "delete")
      /\ \/ dict' = [dict EXCEPT ![n] = NoDict] /\ left' = left
         \/ left' = left \cup {n} /\ dict' = dict
  BY DEF RemoveDictionary, rows
<1>2. /\ call'[c].pc = "delete" /\ call'[c].name = n /\ call'[c].target = i
      /\ call'[c].new = call[c].new
      /\ \A d \in Call : d # c => call'[d] = call[d]
  BY <1>0, <1>1 DEF Goto, Calls
<1>3. i \in Id /\ i # 0 /\ (n \notin crossed => Stored(i)) /\ (Stored(i) => row[i].name = n)
  BY <1>0, OwnRow DEF Id
<1>4. \A m \in Name : dict'[m] = dict[m] \/ (m = n /\ dict'[m].id = 0)
  BY <1>0, <1>1 DEF NoDict
<1>5. \A d \in Call, j \in Id : WorksOn(d, j)' <=> WorksOn(d, j)
  BY <1>0, <1>2 DEF WorksOn, IsActive, At
<1>6. Placed'
  <2>1. \A d \in Call : CallPlaced(d)'
    BY <1>0, <1>1, <1>2, <1>3 DEF Placed, CallPlaced, Stored, AfterInsert
  <2>2. \A d, e \in Call : call'[d].new = call'[e].new /\ call'[d].new # 0 => d = e
    BY <1>2 DEF Placed
  <2>3. \A m \in Name : dict'[m].id <= inserted
    BY <1>4, Bounds DEF Placed, Shape, ServiceShape, Id
  <2> QED
    BY <1>1, <1>5, <2>1, <2>2, <2>3 DEF Placed, Stored
<1>7. AllFind'
  <2> SUFFICES ASSUME NEW d \in Call, call'[d].name \notin crossed PROVE Finds(d)'
    BY <1>1 DEF AllFind
  <2>1. CASE d = c
    <3>1. n \notin left' => dict'[n].id = 0
      BY <1>0, <1>1 DEF NoDict
    <3> QED
      BY <1>1, <1>2, <1>3, <2>1, <3>1 DEF Finds, Stored, AfterInsert
  <2>2. CASE d # c
    <3>0. Finds(d) /\ call'[d] = call[d] /\ call[d].name \in Name
      BY <1>0, <1>2, <2>2 DEF AllFind, Calls
    <3>1. CASE call[d].name # n \/ dict' = dict
      BY <1>0, <1>1, <1>2, <1>4, <2>2, <3>0, <3>1 DEF Finds, Stored
    <3>2. CASE call[d].name = n
      <4>1. call[d].pc \notin Busy
        BY <1>0, <2>2, <3>0, <3>2, BusyAlone
      <4> QED
        BY <3>0, <4>1 DEF Finds, Busy, BeforeDelete, AfterInsert
    <3> QED
      BY <3>1, <3>2
  <2> QED
    BY <2>1, <2>2
<1>8. DictionariesFit'
  <2>1. ASSUME NEW j \in whole', row[j].name \notin crossed, ~Excused(j)'
        PROVE  /\ dict'[row[j].name].id = j /\ dict'[row[j].name].password = row[j].password
               /\ j \in dict'[row[j].name].files
    <3>0. j # i
      BY <1>2, <2>1 DEF Excused, IsRemoving, Removing, At
    <3>a. ~Excused(j)
      BY <1>0, <1>1, <1>2, <2>1, ExcusesLast
    <3>1. j \in whole /\ j # i /\ Stored(j) /\ j \in Id
      BY <1>1, <2>1, <3>0 DEF Placed, Shape, ServiceShape
    <3>2. row[j].name # n
      BY <1>0, <2>1, <3>1, OwnName
    <3>3. row[j].name \in Name
      BY <3>1 DEF Shape, ServiceShape, Rows
    <3>4. dict'[row[j].name] = dict[row[j].name]
      BY <1>4, <3>2, <3>3
    <3> QED
      BY <2>1, <3>1, <3>4, <3>a, WholeFits
  <2>2. ASSUME NEW m \in Name \ (crossed \cup left'), dict'[m].id # 0
        PROVE  Stored(dict'[m].id) /\ row[dict'[m].id].name = m
    BY <1>1, <1>4, <2>2 DEF DictionariesFit
  <2> QED
    BY <1>1, <2>1, <2>2 DEF DictionariesFit, Excused, Stored
<1> QED
  BY <1>6, <1>7, <1>8

\* A call deletes its row: its directory is gone.
LEMMA DeleteKeeps ==
    ASSUME Shape, DatasourceInv, NEW c \in Call, DeleteRow(c)
    PROVE  DatasourceInv'
<1> DEFINE n == call[c].name
           i == call[c].target
<1> USE DEF DatasourceInv
<1>0. /\ call \in [Call -> Calls] /\ call[c] \in Calls /\ row \in [Id -> Rows]
      /\ call[c].pc = "delete" /\ call[c].pc \in Busy /\ Subject(c) = i
  BY DEF DeleteRow, At, Busy, Subject, BeforeDelete, Shape, ServiceShape
<1>1. /\ row' = [row EXCEPT ![i] = NoRow] /\ whole' = whole \ {i}
      /\ UNCHANGED <<inserted, dict, crossed, left, stripped>>
  BY DEF DeleteRow
<1>2. /\ call'[c].pc \in {"done", "duplicate"} /\ call'[c].new \in {0, call[c].new}
      /\ call'[c].pc = "duplicate" => call'[c].target = i /\ call'[c].new = call[c].new
      /\ \A d \in Call : d # c => call'[d] = call[d]
  <2>1. CASE Done(c)
    BY <1>0, <2>1 DEF Done, NoCall
  <2>2. CASE ~Done(c)
    <3>1. call' = [call EXCEPT ![c].pc = "duplicate", ![c].name = 0]
      BY <2>2 DEF DeleteRow
    <3> QED
      BY <1>0, <3>1 DEF Calls
  <2> QED
    BY <2>1, <2>2
<1>3. i \in Id /\ WorksOn(c, i) /\ (Stored(i) => row[i].name = n)
  BY <1>0, OwnRow
<1>4. \A j \in Id : (Stored(j)' <=> Stored(j) /\ j # i) /\ (j # i => row'[j] = row[j])
  BY <1>0, <1>1 DEF Stored
<1>5. \A d \in Call, j \in Id : WorksOn(d, j)' => WorksOn(d, j)
  BY <1>0, <1>2 DEF WorksOn, IsActive, At
<1>6. call'[c].pc \notin BeforeDelete \cup AfterInsert /\ call'[c].pc # "find"
  BY <1>2 DEF BeforeDelete, AfterInsert
<1>7. \A d \in Call :
         /\ call[d].pc \in BeforeDelete => call[d].target \in Id
         /\ call[d].pc \in AfterInsert => call[d].new \in Id
  BY OwnRow, Pcs DEF Busy, Subject
<1>8. Placed'
  <2>1. \A d \in Call : CallPlaced(d)'
    BY <1>1, <1>2, <1>4, <1>6, <1>7 DEF Placed, CallPlaced
  <2>2. \A d, e \in Call : call'[d].new = call'[e].new /\ call'[d].new # 0 => d = e
    BY <1>2 DEF Placed
  <2>3. \A j \in whole' : Stored(j)'
    BY <1>1, <1>4 DEF Placed, Shape, ServiceShape
  <2>4. \A d, e \in Call, j \in Id :
           d # e /\ WorksOn(d, j)' /\ WorksOn(e, j)' /\ Stored(j)' => row'[j].name \in crossed'
    BY <1>1, <1>4, <1>5 DEF Placed
  <2>5. \A j, k \in Id : Stored(j)' /\ Stored(k)' /\ row'[j].name = row'[k].name => j = k
    BY <1>4 DEF Placed
  <2>6. \A j \in Id : Stored(j)' => j <= inserted'
    BY <1>1, <1>4 DEF Placed
  <2>7. \A m \in Name : dict'[m].id <= inserted'
    BY <1>1 DEF Placed
  <2> QED
    BY <2>1, <2>2, <2>3, <2>4, <2>5, <2>6, <2>7 DEF Placed
<1>9. AllFind'
  <2> SUFFICES ASSUME NEW d \in Call, call'[d].name \notin crossed PROVE Finds(d)'
    BY <1>1 DEF AllFind
  <2>1. CASE d = c
    BY <1>2, <1>6, <2>1 DEF Finds, AfterInsert
  <2>2. CASE d # c /\ call[d].pc \in Busy
    <3>1. Finds(d) /\ call'[d] = call[d]
      BY <1>2, <2>2 DEF AllFind
    <3>2. ~WorksOn(c, Subject(d))
      BY <2>2, <3>1, BusyAlone
    <3>3. Subject(d) # i
      BY <1>3, <3>2
    <3> QED
      BY <1>1, <1>4, <1>7, <3>1, <3>3, Pcs DEF Finds, Subject, Busy
  <2>3. CASE d # c /\ call[d].pc \notin Busy
    BY <1>2, <2>3 DEF Finds, Busy, BeforeDelete, AfterInsert
  <2> QED
    BY <2>1, <2>2, <2>3
<1>10. DictionariesFit'
  <2>1. ASSUME NEW j \in whole', row'[j].name \notin crossed, ~Excused(j)'
        PROVE  /\ dict[row'[j].name].id = j /\ dict[row'[j].name].password = row'[j].password
               /\ j \in dict[row'[j].name].files
    <3>1. j \in whole /\ row'[j] = row[j] /\ j # i
      BY <1>1, <1>4, <2>1 DEF Shape, ServiceShape
    <3>2. ~Excused(j)
      BY <1>1, <1>2, <2>1, <3>1, ExcusesLast
    <3> QED
      BY <2>1, <3>1, <3>2, WholeFits
  <2>2. ASSUME NEW m \in Name \ (crossed \cup left), NEW k, k = dict[m].id, k # 0
        PROVE  row'[k] # NoRow /\ row'[k].name = m
    <3>1. Stored(k) /\ row[k].name = m /\ k \in Id
      BY <2>2, Bounds DEF DictionariesFit, Shape, ServiceShape, Dicts, Id
    <3>2. k # i
      BY <1>0, <1>3, <2>2, <3>1 DEF AllFind, Finds
    <3> QED
      BY <1>4, <3>1, <3>2 DEF Stored
  <2> QED
    BY <1>1, <2>1, <2>2 DEF DictionariesFit, Excused, Stored
<1> QED
  BY <1>8, <1>9, <1>10

\* A call inserts a row under a new id and a name not taken.
LEMMA InsertKeeps ==
    ASSUME Shape, Tested, DatasourceInv, NEW c \in Call, InsertRow(c), ~IsRefused(call[c].schema)
    PROVE  DatasourceInv'
<1> DEFINE n == call[c].name
           i == inserted + 1
           p == call[c].password
<1> USE DEF DatasourceInv
<1>0. /\ call \in [Call -> Calls] /\ call[c] \in Calls /\ row \in [Id -> Rows]
      /\ call[c].pc = "insert" /\ inserted \in Nat /\ i \in Id /\ n \in Name
      /\ \A k \in Id : k \in Nat
  <2>1. inserted \in 1..MaxRows /\ inserted < MaxRows /\ MaxRows \in Nat
    BY Bounds DEF InsertRow, Shape, ServiceShape, Id
  <2> QED
    BY <2>1 DEF InsertRow, At, Shape, ServiceShape, Calls, Id
<1>1. inserted' = i /\ UNCHANGED <<dict, whole, crossed, left, stripped>>
  BY DEF InsertRow, ghosts
<1>a. /\ row' = [row EXCEPT ![i] = [name |-> n, schema |-> call[c].schema,
                                    password |-> p, table |-> "none"]]
      /\ call' = [call EXCEPT ![c].new = i, ![c].pc = "ini"]
  BY <1>1 DEF InsertRow
<1>2. p # 0
  BY <1>0, Bounds DEF Tested, InTry, Shape, QueryShape, Password
<1>3. /\ row'[i] # NoRow /\ row'[i].name = n /\ row'[i].password = p
      /\ \A k \in Id : k # i => row'[k] = row[k]
  BY <1>0, <1>a, <1>2 DEF Stored, NoRow
<1>4. /\ call'[c].pc = "ini" /\ call'[c].name = n /\ call'[c].new = i /\ call'[c].password = p
      /\ call'[c].target = call[c].target
      /\ \A d \in Call : d # c => call'[d] = call[d]
  BY <1>0, <1>a DEF Calls
<1>5. /\ \A d \in Call : call[d].target # i /\ call[d].new # i
      /\ \A k \in Id : Stored(k) => k # i
      /\ \A m \in Name : dict[m].id # i /\ dict[m].id <= i
      /\ \A k \in whole : k \in Id /\ k # i
  <2>1. \A d \in Call : call[d].target # i /\ call[d].new # i
    BY <1>0, Bounds DEF Shape, ServiceShape, LocalsFit, Calls
  <2>2. \A k \in Id : Stored(k) => k # i
    BY <1>0 DEF Placed
  <2>3. \A m \in Name : dict[m].id # i /\ dict[m].id <= i
    BY <1>0, Bounds DEF Placed, Shape, ServiceShape, Dicts
  <2> QED
    BY <2>1, <2>2, <2>3 DEF Placed, Shape, ServiceShape
<1>6. \A k \in Id : k # i => (Stored(k)' <=> Stored(k)) /\ row'[k] = row[k]
  BY <1>3 DEF Stored
<1>7. \A d \in Call :
         /\ call[d].pc \in BeforeDelete => row'[call[d].target] = row[call[d].target]
         /\ call[d].pc \in AfterInsert => row'[call[d].new] = row[call[d].new]
  BY <1>5, <1>6, OwnRow, Pcs DEF Busy, Subject
<1>8. call'[c].pc \notin BeforeDelete
  BY <1>4 DEF BeforeDelete
<1>9. Placed'
  <2>1. ASSUME NEW d \in Call
        PROVE  CallPlaced(d)'
    <3>1. CASE d = c
      BY <1>1, <1>3, <1>4, <1>5, <1>8, <3>1 DEF CallPlaced, Stored
    <3>2. CASE d # c
      <4>1. CallPlaced(d) /\ call'[d] = call[d]
        BY <1>4, <3>2 DEF Placed
      <4> QED
        BY <1>1, <1>7, <4>1 DEF CallPlaced, Stored
    <3> QED
      BY <3>1, <3>2
  <2>2. \A d, e \in Call : call'[d].new = call'[e].new /\ call'[d].new # 0 => d = e
    BY <1>4, <1>5 DEF Placed
  <2>3. \A k \in whole' : Stored(k)'
    BY <1>1, <1>5, <1>6 DEF Placed
  <2>4. ASSUME NEW d \in Call, NEW e \in Call, NEW k \in Id,
               d # e, WorksOn(d, k)', WorksOn(e, k)', Stored(k)'
        PROVE  row'[k].name \in crossed'
    <3>1. k # i
      BY <1>4, <1>5, <2>4 DEF WorksOn
    <3>2. WorksOn(d, k) /\ WorksOn(e, k)
      BY <1>0, <1>4, <2>4, <3>1 DEF WorksOn, IsActive, At
    <3> QED
      BY <1>1, <1>6, <2>4, <3>1, <3>2 DEF Placed
  <2>5. \A j, k \in Id : Stored(j)' /\ Stored(k)' /\ row'[j].name = row'[k].name => j = k
    BY <1>3, <1>6 DEF Placed, InsertRow, IsTaken
  <2>6. \A j \in Id : Stored(j)' => j <= inserted'
    BY <1>0, <1>1, <1>6 DEF Placed
  <2>7. \A m \in Name : dict'[m].id <= inserted'
    BY <1>1, <1>5
  <2> QED
    BY <2>1, <2>2, <2>3, <2>4, <2>5, <2>6, <2>7 DEF Placed
<1>10. AllFind'
  <2> SUFFICES ASSUME NEW d \in Call, call'[d].name \notin crossed PROVE Finds(d)'
    BY <1>1 DEF AllFind
  <2>1. CASE d = c
    BY <1>3, <1>4, <1>8, <2>1 DEF Finds, Stored
  <2>2. CASE d # c
    <3>1. Finds(d) /\ call'[d] = call[d]
      BY <1>1, <1>4, <2>2 DEF AllFind
    <3> QED
      BY <1>1, <1>7, <3>1 DEF Finds, Stored
  <2> QED
    BY <2>1, <2>2
<1>11. DictionariesFit'
  <2>1. ASSUME NEW j \in whole', row'[j].name \notin crossed, ~Excused(j)'
        PROVE  /\ dict[row'[j].name].id = j /\ dict[row'[j].name].password = row'[j].password
               /\ j \in dict[row'[j].name].files
    <3>1. j \in whole /\ row'[j] = row[j]
      BY <1>1, <1>5, <1>6, <2>1
    <3>2. ~Excused(j)
      BY <1>0, <1>1, <1>4, <2>1, ExcusesLast
    <3> QED
      BY <2>1, <3>1, <3>2, WholeFits
  <2>2. ASSUME NEW m \in Name \ (crossed \cup left), NEW k, k = dict[m].id, k # 0
        PROVE  row'[k] # NoRow /\ row'[k].name = m
    <3>1. Stored(k) /\ row[k].name = m /\ k \in Id /\ k # i
      BY <1>5, <2>2, Bounds DEF DictionariesFit, Shape, ServiceShape, Dicts, Id
    <3> QED
      BY <1>6, <3>1 DEF Stored
  <2> QED
    BY <1>1, <2>1, <2>2 DEF DictionariesFit, Excused, Stored
<1> QED
  BY <1>9, <1>10, <1>11

\* What a call that describes its new row has, and where it goes on.
LEMMA Describing ==
    ASSUME Shape, DatasourceInv, NEW c \in Call, call[c].pc \in AfterInsert,
           NEW pc \in {"columns", "file", "path", "cleanup"}, Goto(c, pc)
    PROVE  /\ call[c].pc \in Busy /\ Subject(c) = call[c].new /\ call[c].new \in Id
           /\ call[c].new <= inserted /\ call[c].new \notin whole /\ call[c].name \in Name
           /\ Stored(call[c].new) => /\ row[call[c].new].name = call[c].name
                                     /\ row[call[c].new].password = call[c].password
           /\ call'[c].pc = pc /\ call'[c].name = call[c].name /\ call'[c].new = call[c].new
           /\ call'[c].target = call[c].target /\ call'[c].password = call[c].password
           /\ call'[c].pc \notin BeforeDelete /\ call'[c].pc # "find"
           /\ \A d \in Call : d # c => call'[d] = call[d]
           /\ \A d \in Call, k \in Id : WorksOn(d, k)' => WorksOn(d, k)
<1> USE DEF DatasourceInv
<1>0. call \in [Call -> Calls] /\ call[c] \in Calls /\ LocalsFit(call[c], inserted)
  BY DEF Shape, ServiceShape
<1>1. call[c].pc \in Busy /\ Subject(c) = call[c].new
  BY DEF Busy, Subject, BeforeDelete, AfterInsert
<1>2. call[c].new \in Id /\ call[c].new <= inserted /\ call[c].name \in Name
  BY <1>0, <1>1, OwnRow DEF LocalsFit, Calls
<1>3. CallPlaced(c)
  BY DEF Placed
<1>4. /\ call'[c].pc = pc /\ call'[c].name = call[c].name /\ call'[c].new = call[c].new
      /\ call'[c].target = call[c].target /\ call'[c].password = call[c].password
      /\ \A d \in Call : d # c => call'[d] = call[d]
  BY <1>0 DEF Goto, Calls
<1>5. call'[c].pc \notin BeforeDelete /\ call'[c].pc # "find"
  BY <1>4 DEF BeforeDelete
<1>6. \A d \in Call, k \in Id : WorksOn(d, k)' => WorksOn(d, k)
  BY <1>4 DEF WorksOn, IsActive, At, AfterInsert
<1> QED
  BY <1>1, <1>2, <1>3, <1>4, <1>5, <1>6 DEF CallPlaced

\* A call writes config.ini, and the file of the table, under its name.
LEMMA FilesKeep ==
    ASSUME Shape, DatasourceInv, NEW c \in Call, SaveIni(c) \/ SaveFile(c)
    PROVE  DatasourceInv'
<1> DEFINE n == call[c].name
           i == call[c].new
           p == call[c].password
<1> USE DEF DatasourceInv
<1>0. call[c].pc \in {"ini", "file"} /\ call[c].pc \in AfterInsert
  BY DEF SaveIni, SaveFile, At, AfterInsert
<1>1. UNCHANGED <<row, inserted, whole, crossed, left, stripped>>
  BY DEF SaveIni, SaveFile, rows, ghosts
<1>2. PICK pc \in {"columns", "path"} : Goto(c, pc) /\ (pc = "path" <=> SaveFile(c))
                                          /\ (pc = "columns" <=> SaveIni(c))
  BY DEF SaveIni, SaveFile, At
<1>3. /\ call[c].pc \in Busy /\ Subject(c) = i /\ i \in Id /\ i <= inserted /\ i \notin whole
      /\ n \in Name
      /\ Stored(i) => row[i].name = n /\ row[i].password = p
      /\ call'[c].pc = pc /\ call'[c].name = n /\ call'[c].new = i
      /\ call'[c].target = call[c].target /\ call'[c].password = p
      /\ call'[c].pc \notin BeforeDelete /\ call'[c].pc # "find"
      /\ \A d \in Call : d # c => call'[d] = call[d]
      /\ \A d \in Call, k \in Id : WorksOn(d, k)' => WorksOn(d, k)
  BY <1>0, <1>2, Describing
<1>4. n \notin crossed => Stored(i)
  BY <1>3, OwnRow
<1>5. /\ \A m \in Name : m # n => dict'[m] = dict[m]
      /\ pc = "columns" => dict'[n].id = i /\ dict'[n].password = p
      /\ pc = "path" => /\ dict'[n].id = dict[n].id /\ dict'[n].password = dict[n].password
                        /\ i \in dict'[n].files
  <2>0. dict \in [Name -> Dicts] /\ dict[n] \in Dicts
    BY <1>3 DEF Shape, ServiceShape
  <2>1. CASE pc = "columns"
    <3>1. dict' = [dict EXCEPT ![n] = [dict[n] EXCEPT !.id = i, !.password = p]]
      BY <1>2, <1>3, <2>0, <2>1 DEF SaveIni
    <3> QED
      BY <1>3, <2>0, <2>1, <3>1 DEF Dicts
  <2>2. CASE pc = "path"
    <3>1. dict' = [dict EXCEPT ![n] = [dict[n] EXCEPT !.files = dict[n].files \cup {i}]]
      BY <1>2, <1>3, <2>0, <2>2 DEF SaveFile
    <3> QED
      BY <1>3, <2>0, <2>2, <3>1 DEF Dicts
  <2> QED
    BY <2>1, <2>2
<1>6. pc = "path" => call[c].pc = "file"
  BY <1>2 DEF SaveFile, At
<1>7. pc \in AfterInsert /\ pc # "delete"
  BY DEF AfterInsert
<1>8. Placed'
  <2>1. ASSUME NEW d \in Call
        PROVE  CallPlaced(d)'
    <3>1. CASE d = c
      BY <1>1, <1>3, <3>1 DEF CallPlaced, Stored
    <3>2. CASE d # c
      BY <1>1, <1>3, <3>2 DEF Placed, CallPlaced, Stored
    <3> QED
      BY <3>1, <3>2
  <2>2. \A d, e \in Call : call'[d].new = call'[e].new /\ call'[d].new # 0 => d = e
    BY <1>3 DEF Placed
  <2>3. \A m \in Name : dict'[m].id <= inserted
    BY <1>3, <1>5 DEF Placed
  <2> QED
    BY <1>1, <1>3, <2>1, <2>2, <2>3 DEF Placed, Stored
<1>9. AllFind'
  <2> SUFFICES ASSUME NEW d \in Call, call'[d].name \notin crossed PROVE Finds(d)'
    BY <1>1 DEF AllFind
  <2>1. CASE d = c
    <3>1. n \notin crossed /\ Finds(c)
      BY <1>3, <2>1 DEF AllFind
    <3>2. dict'[n].id = i /\ dict'[n].password = p
      BY <1>5, <1>6, <3>1 DEF Finds
    <3> QED
      BY <1>1, <1>3, <1>4, <1>5, <1>7, <2>1, <3>1, <3>2 DEF Finds, Stored
  <2>2. CASE d # c
    <3>0. Finds(d) /\ call'[d] = call[d] /\ call[d].name \in Name
      BY <1>3, <2>2 DEF AllFind, Shape, ServiceShape, Calls
    <3>1. CASE call[d].name # n
      <4>1. dict'[call[d].name] = dict[call[d].name]
        BY <1>5, <3>0, <3>1
      <4> QED
        BY <1>1, <3>0, <4>1 DEF Finds, Stored
    <3>2. CASE call[d].name = n
      <4>1. call[d].pc \notin Busy
        BY <1>3, <2>2, <3>0, <3>2, BusyAlone
      <4> QED
        BY <3>0, <4>1 DEF Finds, Busy, BeforeDelete, AfterInsert
    <3> QED
      BY <3>1, <3>2
  <2> QED
    BY <2>1, <2>2
<1>10. DictionariesFit'
  <2>1. ASSUME NEW j \in whole, row[j].name \notin crossed, ~Excused(j)'
        PROVE  /\ dict'[row[j].name].id = j /\ dict'[row[j].name].password = row[j].password
               /\ j \in dict'[row[j].name].files
    <3>1. j # i /\ Stored(j) /\ j \in Id /\ row[j].name \in Name
      BY <1>3, <2>1 DEF Placed, Shape, ServiceShape, Rows
    <3>2. row[j].name # n
      BY <1>3, <2>1, <3>1, OwnName
    <3>3. dict'[row[j].name] = dict[row[j].name]
      BY <1>5, <3>1, <3>2
    <3>4. call[c].pc # "delete"
      BY <1>0
    <3>5. ~Excused(j)
      BY <1>1, <1>3, <2>1, <3>4, ExcusesLast
    <3> QED
      BY <2>1, <3>3, <3>5, WholeFits
  <2>2. ASSUME NEW m \in Name \ (crossed \cup left), dict'[m].id # 0
        PROVE  row[dict'[m].id] # NoRow /\ row[dict'[m].id].name = m
    <3>1. CASE m = n /\ pc = "columns"
      BY <1>3, <1>4, <1>5, <2>2, <3>1 DEF Stored
    <3>2. CASE dict'[m].id = dict[m].id
      BY <2>2, <3>2 DEF DictionariesFit, Stored
    <3> QED
      BY <1>5, <2>2, <3>1, <3>2
  <2> QED
    BY <1>1, <2>1, <2>2 DEF DictionariesFit, Excused, Stored
<1> QED
  BY <1>8, <1>9, <1>10

\* A call stores its table, then where its file is: now the row is whole.
LEMMA TablesKeep ==
    ASSUME Shape, DatasourceInv, NEW c \in Call, CreateTable(c) \/ SavePath(c)
    PROVE  DatasourceInv'
<1> DEFINE n == call[c].name
           i == call[c].new
           p == call[c].password
<1> USE DEF DatasourceInv
<1>0. call[c].pc \in {"columns", "path"} /\ call[c].pc \in AfterInsert /\ Stored(i)
  BY DEF CreateTable, SavePath, At, AfterInsert
<1>1. UNCHANGED <<inserted, dict, crossed, left, stripped>>
  BY DEF CreateTable, SavePath, ghosts
<1>2. PICK pc \in {"file", "cleanup"} : /\ Goto(c, pc)
                                        /\ pc = "file" => call[c].pc = "columns" /\ whole' = whole
                                        /\ pc = "cleanup" => call[c].pc = "path"
                                                             /\ whole' = whole \cup {i}
  BY DEF CreateTable, SavePath, At, ghosts
<1>3. /\ call[c].pc \in Busy /\ Subject(c) = i /\ i \in Id /\ i <= inserted /\ i \notin whole
      /\ n \in Name
      /\ Stored(i) => row[i].name = n /\ row[i].password = p
      /\ call'[c].pc = pc /\ call'[c].name = n /\ call'[c].new = i
      /\ call'[c].target = call[c].target /\ call'[c].password = p
      /\ call'[c].pc \notin BeforeDelete /\ call'[c].pc # "find"
      /\ \A d \in Call : d # c => call'[d] = call[d]
      /\ \A d \in Call, k \in Id : WorksOn(d, k)' => WorksOn(d, k)
  BY <1>0, <1>2, Describing
<1>4. \A k \in Id : /\ row'[k].name = row[k].name /\ row'[k].password = row[k].password
                    /\ row'[k] # NoRow <=> row[k] # NoRow
  <2>0. row \in [Id -> Rows] /\ row[i] \in Rows
    BY <1>3 DEF Shape, ServiceShape
  <2>1. PICK t \in {"created", "described"} : row' = [row EXCEPT ![i] = [row[i] EXCEPT !.table = t]]
    BY <1>3, <2>0 DEF CreateTable, SavePath
  <2> DEFINE r == [row[i] EXCEPT !.table = t]
  <2>2. r.name = row[i].name /\ r.password = row[i].password /\ r.table = t
    BY <2>0 DEF Rows
  <2>3. r # NoRow
    BY <2>2 DEF NoRow
  <2>4. row' = [row EXCEPT ![i] = r]
    BY <2>1
  <2> HIDE DEF r
  <2> QED
    BY <1>0, <1>3, <2>0, <2>2, <2>3, <2>4 DEF Stored
<1>5. \A d \in Call :
         /\ call[d].pc \in BeforeDelete => call[d].target \in Id
         /\ call[d].pc \in AfterInsert => call[d].new \in Id
  BY OwnRow, Pcs DEF Busy, Subject
<1>6. \A d \in Call : d # c => call[d].new # i
  BY <1>3 DEF Placed, Id
<1>7. pc = "file" => pc \in AfterInsert
  BY DEF AfterInsert
<1>8. Placed'
  <2>1. ASSUME NEW d \in Call
        PROVE  CallPlaced(d)'
    <3>1. CASE d = c
      BY <1>0, <1>2, <1>3, <1>4, <3>1 DEF CallPlaced, Stored, AfterInsert
    <3>2. CASE d # c
      <4>1. CallPlaced(d) /\ call'[d] = call[d]
        BY <1>3, <3>2 DEF Placed
      <4>2. call[d].new \in whole' => call[d].new \in whole
        BY <1>2, <1>6, <3>2
      <4> QED
        BY <1>4, <1>5, <4>1, <4>2 DEF CallPlaced, Stored
    <3> QED
      BY <3>1, <3>2
  <2>2. \A d, e \in Call : call'[d].new = call'[e].new /\ call'[d].new # 0 => d = e
    BY <1>3 DEF Placed
  <2>3. \A k \in whole' : row'[k] # NoRow
    BY <1>0, <1>2, <1>3, <1>4 DEF Placed, Stored, Shape, ServiceShape
  <2>4. \A d, e \in Call, k \in Id :
           d # e /\ WorksOn(d, k)' /\ WorksOn(e, k)' /\ row'[k] # NoRow => row'[k].name \in crossed
    BY <1>3, <1>4 DEF Placed, Stored
  <2>5. \A j, k \in Id : row'[j] # NoRow /\ row'[k] # NoRow /\ row'[j].name = row'[k].name => j = k
    BY <1>4 DEF Placed, Stored
  <2>6. \A k \in Id : row'[k] # NoRow => k <= inserted
    BY <1>4 DEF Placed, Stored
  <2> QED
    BY <1>1, <2>1, <2>2, <2>3, <2>4, <2>5, <2>6 DEF Placed, Stored
<1>9. AllFind'
  <2> SUFFICES ASSUME NEW d \in Call, call'[d].name \notin crossed PROVE Finds(d)'
    BY <1>1 DEF AllFind
  <2>1. CASE d = c
    <3>1. Finds(c)
      BY <1>3, <2>1 DEF AllFind
    <3> QED
      BY <1>0, <1>1, <1>2, <1>3, <1>4, <2>1, <3>1 DEF Finds, Stored, AfterInsert
  <2>2. CASE d # c
    <3>1. Finds(d) /\ call'[d] = call[d]
      BY <1>3, <2>2 DEF AllFind
    <3> QED
      BY <1>1, <1>4, <1>5, <3>1 DEF Finds, Stored
  <2> QED
    BY <2>1, <2>2
<1>10. DictionariesFit'
  <2>1. ASSUME NEW j \in whole', row'[j].name \notin crossed, ~Excused(j)'
        PROVE  /\ dict[row'[j].name].id = j /\ dict[row'[j].name].password = row'[j].password
               /\ j \in dict[row'[j].name].files
    <3>1. CASE j \in whole
      <4>1. j \in Id
        BY <3>1 DEF Shape, ServiceShape
      <4>2. call[c].pc # "delete"
        BY <1>0
      <4>3. ~Excused(j)
        BY <1>1, <1>3, <2>1, <4>2, ExcusesLast
      <4> QED
        BY <1>4, <2>1, <3>1, <4>1, <4>3, WholeFits
    <3>2. CASE j \notin whole
      <4>1. j = i /\ call[c].pc = "path"
        BY <1>2, <2>1, <3>2
      <4>2. row'[j].name = n /\ row'[j].password = p
        BY <1>0, <1>3, <1>4, <4>1
      <4>3. Finds(c)
        BY <2>1, <4>2 DEF AllFind
      <4> QED
        BY <4>1, <4>2, <4>3 DEF Finds
    <3> QED
      BY <3>1, <3>2
  <2>2. ASSUME NEW m \in Name \ (crossed \cup left), NEW k, k = dict[m].id, k # 0
        PROVE  row'[k] # NoRow /\ row'[k].name = m
    <3>1. Stored(k) /\ row[k].name = m /\ k \in Id
      BY <2>2, Bounds DEF DictionariesFit, Shape, ServiceShape, Dicts, Id
    <3> QED
      BY <1>4, <3>1 DEF Stored
  <2> QED
    BY <1>1, <2>1, <2>2 DEF DictionariesFit, Excused, Stored
<1> QED
  BY <1>8, <1>9, <1>10

LEMMA InitFits == Init => DatasourceInv
<1> SUFFICES ASSUME Init PROVE DatasourceInv
  OBVIOUS
<1>1. /\ row[1] = [NoRow EXCEPT !.password = 1, !.table = "described"]
      /\ \A i \in Id : i # 1 => row[i] = NoRow
      /\ dict[0] = [id |-> 1, password |-> 1, files |-> {1}]
      /\ \A n \in Name : n # 0 => dict[n] = NoDict
      /\ \A c \in Call : call[c] = NoCall
      /\ inserted = 1 /\ whole = {1}
  BY Bounds DEF Init
<1>2. row[1].name = 0 /\ row[1].password = 1 /\ Stored(1) /\ \A i \in Id : Stored(i) => i = 1
  <2>1. row[1].name = 0 /\ row[1].password = 1 /\ row[1].table = "described"
    BY <1>1 DEF NoRow
  <2>2. NoRow.table = "none"
    BY DEF NoRow
  <2>3. row[1] # NoRow
    BY <2>1, <2>2
  <2> QED
    BY <1>1, <2>1, <2>3 DEF Stored
<1>3. \A c \in Call : /\ call[c].pc = "ready" /\ call[c].new = 0
                      /\ CallPlaced(c) /\ Finds(c) /\ \A i \in Id : ~WorksOn(c, i)
  BY <1>1 DEF NoCall, CallPlaced, Finds, WorksOn, IsActive, BeforeDelete, AfterInsert
<1>4. \A n \in Name : dict[n].id = IF n = 0 THEN 1 ELSE 0
  BY <1>1 DEF NoDict
<1>5. Placed
  BY <1>1, <1>2, <1>3, <1>4, Bounds DEF Placed
<1>6. AllFind
  BY <1>3 DEF AllFind
<1>7. DictionariesFit
  <2>1. dict[0].id = 1 /\ dict[0].password = 1 /\ 1 \in dict[0].files
    BY <1>1
  <2>2. ASSUME NEW i \in whole
        PROVE  dict[row[i].name].id = i /\ dict[row[i].name].password = row[i].password
               /\ i \in dict[row[i].name].files
    BY <1>1, <1>2, <2>1, <2>2
  <2>3. \A n \in Name : dict[n].id # 0 => n = 0
    BY <1>4
  <2>4. ASSUME NEW n \in Name, dict[n].id # 0
        PROVE  Stored(dict[n].id) /\ row[dict[n].id].name = n
    BY <1>2, <2>1, <2>3, <2>4
  <2> QED
    BY <2>2, <2>4 DEF DictionariesFit
<1> QED
  BY <1>5, <1>6, <1>7 DEF DatasourceInv

LEMMA ServiceFits ==
    ASSUME Shape, Tested, DatasourceInv, NEW c \in Call, Service(c)
    PROVE  DatasourceInv'
<1>1. CASE FindTarget(c)
  <2>1. Done(c) => UNCHANGED <<rows, dict, whole, crossed, left>>
    <3>1. CASE Stored(call[c].target)
      <4>1. /\ call[c] \in Calls /\ call \in [Call -> Calls]
            /\ \E pc \in {"remove", "unmask", "test"} :
                  call' = [call EXCEPT ![c].name = row[call[c].target].name, ![c].pc = pc]
        BY <1>1, <3>1 DEF FindTarget, Shape, ServiceShape
      <4>2. call'[c].pc # "done"
        BY <4>1 DEF Calls
      <4> QED
        BY <4>1, <4>2, DoneTypes DEF Done, NoCall
    <3>2. CASE ~Stored(call[c].target)
      BY <1>1, <3>2 DEF FindTarget
    <3> QED
      BY <3>1, <3>2
  <2> QED
    BY <1>1, <2>1, FindKeeps, QuietKeeps
<1>2. CASE InsertRow(c) /\ IsRefused(call[c].schema)
  BY <1>2, QuietKeeps DEF InsertRow, ghosts
<1>3. CASE AskCreate(c) \/ AskUpdate(c) \/ AskDelete(c) \/ Unmask(c) \/ Test(c)
           \/ FindDuplicate(c) \/ GetTables(c) \/ TryNextName(c) \/ Fails(c)
  <2>1. UNCHANGED <<rows, dict, whole, crossed, left>>
    BY <1>3 DEF ghosts, AskCreate, AskUpdate, AskDelete, Unmask, Test, FindDuplicate, GetTables,
                TryNextName, Fails
  <2> QED
    BY <1>3, <2>1, QuietKeeps
<1>4. CASE Register(c) \/ Cleanup(c)
  BY <1>4, QuietKeeps DEF Register, Cleanup
<1> QED
  BY <1>1, <1>2, <1>3, <1>4, RemoveKeeps, DeleteKeeps, InsertKeeps, FilesKeep, TablesKeep DEF Service

\* The dictionaries fit the rows: every stored datasource that was made in full
\* has its directory, unless two calls worked on its row, or its removal is
\* between directory and row or stopped there; every config.ini names a stored
\* datasource, unless the removal of its directory failed.
THEOREM DictionariesFollow == Spec => []DictionariesFit
<1>1. Shape /\ Tested /\ DatasourceInv /\ [Next]_vars => DatasourceInv'
  <2> SUFFICES ASSUME Shape, Tested, DatasourceInv, [Next]_vars PROVE DatasourceInv'
    OBVIOUS
  <2>1. ASSUME UNCHANGED <<rows, dict, call, whole, crossed, left, stripped>>
        PROVE  DatasourceInv'
    BY <2>1, MoveKeeps
  <2>2. CASE ChangePassword \/ RestartBridge \/ UNCHANGED vars
    BY <2>1, <2>2 DEF ChangePassword, RestartBridge, vars, ghosts
  <2>3. ASSUME NEW q \in Query, Ask(q)
        PROVE  DatasourceInv'
    BY <2>1, <2>3, AskFrame DEF ghosts
  <2>4. CASE RestartBackend
    <3>1. /\ call' = [c \in Call |-> IF IsActive(c) THEN [NoCall EXCEPT !.pc = "done"] ELSE call[c]]
          /\ UNCHANGED <<rows, dict, whole, crossed, left>> /\ StopsBetween(Call)
      BY <2>4 DEF RestartBackend
    <3>2. \A c \in Call : call'[c] = call[c] \/ (call'[c].pc = "done" /\ call'[c].new = 0)
      BY <3>1 DEF NoCall
    <3>3. \A c \in Call : call'[c] = call[c] \/ FreeMove(c)
      BY <3>2 DEF FreeMove, WorksOn, IsActive, At, BeforeDelete, AfterInsert
    <3>4. /\ stripped \subseteq stripped'
          /\ \A c \in Call : call[c].pc = "delete" => call[c].target \in stripped'
      BY <3>1 DEF StopsBetween, Removing, At
    <3> QED
      BY <3>1, <3>3, <3>4, MoveKeeps
  <2> QED
    BY <2>2, <2>3, <2>4, ServiceFits DEF Next
<1>2. DatasourceInv => DictionariesFit
  BY DEF DatasourceInv
<1> QED
  BY <1>1, <1>2, InitFits, TestedAlways, ShapeAlways, PTL DEF Spec

=============================================================================
