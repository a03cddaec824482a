------------------------------ MODULE WriteBatch ------------------------------
(***************************************************************************)
(* What a write batch does to the records of one database: the names of    *)
(* its collections (pkg/core/collection_names.go), the guard that refuses  *)
(* a batch (write_guard.go), the simulation and the schema validation of   *)
(* validateOps (core.go, updates.go, pkg/schema) and the operations handed *)
(* to the driver.  Batches run one after the other, under the write mutex; *)
(* WritePath has their steps.                                              *)
(*                                                                         *)
(* A number is counted in halves, so that it may have a fraction.  The     *)
(* driver, outside the repository, carries the updates that it is given    *)
(* out in order, each as the simulation does; a set replaces a document,   *)
(* and on a SQL engine it may leave the columns alone that it does not     *)
(* name.                                                                   *)
(***************************************************************************)
EXTENDS Integers, Sequences, FiniteSets

CONSTANTS
  SchemaKeys,    \* keys of the manifest's schemas
  Logical(_),    \* on SQLite, the name inside a key that is a quoted identifier, or the key
  SchemaOf,      \* the fields that each key declares
  Lower(_),      \* a field's name in lower case
  PlainFields,   \* names that ValidateFieldName accepts and the engine keeps whole
  MapKeys,       \* names that validateMapKey accepts: those that are not blank
  KeySpellings,  \* the key column, in every case
  Batches,       \* what clients send
  MaxHalves      \* numbers are kept within it

VARIABLES
  storage, mode, \* of the manifest: sql or document; strict, partial or schemaless
  rows,          \* the records, by the key that the adapter is given
  staged,        \* what validateOps made of the last batch that was applied
  drifted,       \* for that batch it read a record otherwise than it is stored
  whole          \* no increment so far had a fraction

batchVars == <<storage, mode, rows, staged, drifted, whole>>

Null == [t |-> "null"]
Text == [t |-> "string"]
Bool == [t |-> "boolean"]
Num(halves) == [t |-> "number", n |-> halves]
Obj(fields) == [t |-> "object", f |-> fields]
NoFields == [x \in {} |-> Null]

\* A batch is a list of operations, each with the fields that it sets and a list
\* of updates.
IsUpdate(u) ==
  /\ u = [name |-> u.name, path |-> u.path, kind |-> u.kind, value |-> u.value]
  /\ u.value.t = "number" => u.value.n \in Int /\ u.value = Num(u.value.n)

ASSUME BatchAssumption ==
  \A batch \in Batches :
    /\ Len(batch) \in Nat /\ DOMAIN batch = 1 .. Len(batch)
    /\ \A i \in DOMAIN batch :
         LET data == batch[i].data
             updates == batch[i].updates IN
           /\ data = [x \in DOMAIN data |-> data[x]]
           /\ Len(updates) \in Nat /\ DOMAIN updates = 1 .. Len(updates)
           /\ \A j \in DOMAIN updates : IsUpdate(updates[j])

Extend(f, x, v) == [y \in DOMAIN f \cup {x} |-> IF y = x THEN v ELSE f[y]]
Without(f, x) == [y \in DOMAIN f \ {x} |-> f[y]]
Over(f, g) == [y \in DOMAIN f \cup DOMAIN g |-> IF y \in DOMAIN f THEN f[y] ELSE g[y]]
-----------------------------------------------------------------------------
(* newCollectionNames. *)

Canonical(k) == IF storage = "sql" THEN Logical(k) ELSE k

\* Every spelling of a key with its canonical name, as the mount declares them.
Spellings(keys) ==
  {<<Canonical(k), Canonical(k)>> : k \in keys} \cup {<<k, Canonical(k)>> : k \in keys}

\* Two keys are one table and declare different fields, or a name is a spelling
\* of two tables.
NamesConflict(keys) ==
  \/ \E j, k \in keys : Canonical(j) = Canonical(k) /\ SchemaOf[j] # SchemaOf[k]
  \/ \E s, t \in Spellings(keys) : s[1] = t[1] /\ s[2] # t[2]

IsDeclared(name) == \E s \in Spellings(SchemaKeys) : s[1] = name
CanonicalCollection(name) == (CHOOSE s \in Spellings(SchemaKeys) : s[1] = name)[2]

\* schemaCollection: found under any spelling of the name.
HasSchema(name) == IsDeclared(name)
SchemaCollection(name) ==
  SchemaOf[CHOOSE k \in SchemaKeys : Canonical(k) = CanonicalCollection(name)]

\* Fault: the adapter is given the name that the caller wrote.
AdapterKeyAsWritten(op) == <<op.name, op.key>>

\* The key the adapter is given; a nested key keeps its path.
AdapterKey(op) ==
  IF op.nested \/ ~ IsDeclared(op.name) THEN <<op.name, op.key>>
  ELSE <<CanonicalCollection(op.name), op.key>>
-----------------------------------------------------------------------------
(* guardWrite. *)

KeyRefused(op) == storage = "sql" /\ (op.nested \/ ~ IsDeclared(op.name))

\* ValidateDataKeys; no data has no keys.
DataKeysRefused(data) ==
  \/ ~ DOMAIN data \subseteq PlainFields
  \/ storage = "sql" /\ \E x \in DOMAIN data : x \in KeySpellings /\ x # "id"

\* ValidateUpdatePath: the first segment is a plain name; later ones are on a
\* SQL engine, where no path may start at the key column, and keys of a map on a
\* document engine.
PathRefused(path) ==
  \/ path[1] \notin PlainFields
  \/ \E i \in 2 .. Len(path) : path[i] \notin IF storage = "sql" THEN PlainFields ELSE MapKeys
  \/ storage = "sql" /\ path[1] \in KeySpellings

\* validateUpdate; an update names a field, or a path, and the guard accepts both.
UpdateRefused(u) ==
  \/ u.name = <<>> /\ u.path = <<>>
  \/ u.name # <<>> /\ PathRefused(u.name)
  \/ u.path # <<>> /\ PathRefused(u.path)

GuardWrite(batch) ==
  \A i \in DOMAIN batch :
    LET op == batch[i] IN
      /\ ~ KeyRefused(op)
      /\ ~ DataKeysRefused(op.data)
      /\ ~ (op.op = "update" /\ op.updates = <<>> /\ storage = "sql")
      /\ \A j \in DOMAIN op.updates : ~ UpdateRefused(op.updates[j])

\* setsNoColumn.
SetsNoColumn(data) == storage = "sql" /\ DOMAIN data \subseteq KeySpellings
-----------------------------------------------------------------------------
(* applyUpdates; a result that is not ok refuses the batch. *)

Done(data) == [ok |-> TRUE, data |-> data]
Failed == [ok |-> FALSE, data |-> NoFields]
IsSet(data, x) == x \in DOMAIN data /\ data[x] # Null

\* incrementAtPath on a leaf: what is not there counts as zero.
Increment(old, delta) ==
  IF delta.t # "number" \/ old.t \notin {"null", "number"} THEN Failed
  ELSE Done(Num((IF old = Null THEN 0 ELSE old.n) + delta.n))

\* What update u makes of the value of its leaf.
NewValue(old, u) ==
  CASE u.kind = "timestamp" -> Done(Text)
    [] u.kind = "increment" -> Increment(old, u.value)
    [] u.kind = "set" -> Done(u.value)
    [] OTHER -> Failed

\* u changes the field x of data, or makes it.
ChangeLeaf(data, x, u) ==
  LET new == NewValue(IF x \in DOMAIN data THEN data[x] ELSE Null, u)
  IN  IF new.ok THEN Done(Extend(data, x, new.data)) ELSE Failed

\* parentAtPath with create: the leaf is a field, or a field of an object that
\* is made when there is none.
ChangeAtPath(data, path, u) ==
  IF Len(path) = 1 THEN ChangeLeaf(data, path[1], u)
  ELSE IF IsSet(data, path[1]) /\ data[path[1]].t # "object" THEN Failed
  ELSE LET inner == IF IsSet(data, path[1]) THEN data[path[1]].f ELSE NoFields
           new == ChangeLeaf(inner, path[2], u)
       IN  IF new.ok THEN Done(Extend(data, path[1], Obj(new.data))) ELSE Failed

DeleteAtPath(data, path) ==
  IF Len(path) = 1 THEN Without(data, path[1])
  ELSE IF IsSet(data, path[1]) /\ data[path[1]].t = "object"
       THEN Extend(data, path[1], Obj(Without(data[path[1]].f, path[2])))
       ELSE data

ApplyUpdate(data, u) ==
  LET path == IF u.name # <<>> THEN u.name ELSE u.path IN
    IF u.name # <<>> /\ u.path # <<>> THEN Failed
    ELSE IF u.kind = "delete" THEN Done(DeleteAtPath(data, path))
    ELSE ChangeAtPath(data, path, u)

ApplyUpdates(data, updates) ==
  LET after[i \in 0 .. Len(updates)] ==
        IF i = 0 THEN Done(data)
        ELSE IF after[i - 1].ok THEN ApplyUpdate(after[i - 1].data, updates[i])
        ELSE Failed
  IN  after[Len(updates)]

\* toDalUpdates: an increment becomes a whole number, rounded towards zero.
ToDalUpdates(updates) ==
  [i \in DOMAIN updates |->
     IF updates[i].kind # "increment" THEN updates[i]
     ELSE LET n == updates[i].value.n
          IN  [updates[i] EXCEPT
                 !.value = Num(IF n >= 0 THEN 2 * (n \div 2) ELSE -(2 * ((-n) \div 2)))]]
-----------------------------------------------------------------------------
(* Schema validation. *)

MatchesType(v, type) ==
  CASE type = "any" -> TRUE
    [] type = "integer" -> v.t = "number" /\ v.n \in Int /\ v.n % 2 = 0
    [] OTHER -> v.t = type

\* validateFields; the field "id" is always declared.
ValidateFields(schema, data, rejectUnknown) ==
  /\ \A x \in DOMAIN schema :
       IF IsSet(data, x) THEN MatchesType(data[x], schema[x].type) ELSE ~ schema[x].required
  /\ rejectUnknown => DOMAIN data \subseteq DOMAIN schema \cup {"id"}

ValidateRecord(name, data) ==
  CASE mode = "schemaless" -> TRUE
    [] mode = "partial" -> HasSchema(name) => ValidateFields(SchemaCollection(name), data, FALSE)
    [] mode = "strict" -> HasSchema(name) /\ ValidateFields(SchemaCollection(name), data, TRUE)
-----------------------------------------------------------------------------
(* coerceToSchema: how Get, and so validateOps, reads a record. *)

\* The declared field for each name in lower case.  Of two fields that differ in
\* case alone the order of a Go map takes one.
DeclaredCases(schema) ==
  {w \in SUBSET DOMAIN schema :
     \A d \in DOMAIN schema : \E e \in w : {x \in w : Lower(x) = Lower(d)} = {e}}

Variants(data, d) == {x \in DOMAIN data \ {d} : Lower(x) = Lower(d)}

\* A field in another case replaces the declared one; of two such fields, the one
\* that comes later in the order of a Go map does.
Renamed(data, declared) ==
  LET changed == {d \in declared : Variants(data, d) # {}}
      gone == UNION {Variants(data, d) : d \in declared}
  IN  {[x \in (DOMAIN data \ gone) \cup changed |-> data[IF x \in changed THEN from[x] ELSE x]] :
         from \in {f \in [changed -> gone] : \A d \in changed : f[d] \in Variants(data, d)}}

AsBooleans(schema, data) ==
  [x \in DOMAIN data |->
     IF x \in DOMAIN schema /\ schema[x].type = "boolean" /\ data[x].t = "number"
     THEN Bool ELSE data[x]]

\* A number becomes a boolean when the driver returns it as int64 or float64.
CoerceToSchema(name, data) ==
  IF ~ HasSchema(name) THEN {data}
  ELSE LET schema == SchemaCollection(name)
           renamed == UNION {Renamed(data, w) : w \in DeclaredCases(schema)}
       IN  renamed \cup {AsBooleans(schema, r) : r \in renamed}
-----------------------------------------------------------------------------
(* validateOps and the transaction. *)

\* One operation on the records, its updates as given: the records it leaves, or
\* a failure.  A set or an insert without data leaves a record without fields.
OpEffect(recs, op, updates, keeps) ==
  LET k == AdapterKey(op)
      exists == k \in DOMAIN recs
  IN  CASE op.op = "set" ->
             IF exists /\ SetsNoColumn(op.data) THEN Failed
             ELSE IF exists /\ keeps THEN Done(Extend(recs, k, Over(op.data, recs[k])))
             ELSE Done(Extend(recs, k, op.data))
        [] op.op = "insert" -> IF exists THEN Failed ELSE Done(Extend(recs, k, op.data))
        [] op.op = "delete" -> Done(Without(recs, k))
        [] op.op = "update" ->
             IF ~ exists THEN Failed
             ELSE LET new == ApplyUpdates(recs[k], updates)
                  IN  IF new.ok THEN Done(Extend(recs, k, new.data)) ELSE Failed
        [] OTHER -> Failed

\* The operations one after another on the records recs, with the updates given
\* for each.
RunOps(recs, batch, given, keeps) ==
  LET after[i \in 0 .. Len(batch)] ==
        IF i = 0 THEN Done(recs)
        ELSE IF after[i - 1].ok THEN OpEffect(after[i - 1].data, batch[i], given[i], keeps)
        ELSE Failed
  IN  after[Len(batch)]

Touched(batch) == {AdapterKey(batch[i]) : i \in DOMAIN batch}

\* The records as load may find them: those that the batch names are read by Get,
\* each once and before anything is written.
Loads(batch) ==
  LET named == Touched(batch) \cap DOMAIN rows
      read == [k \in named |-> CoerceToSchema(k[1], rows[k])]
  IN  {[k \in DOMAIN rows |-> IF k \in named THEN f[k] ELSE rows[k]] :
         f \in {g \in [named -> UNION {read[k] : k \in named}] : \A k \in named : g[k] \in read[k]}}

\* The stage of validateOps: the records that it loaded as the operations of the
\* batch leave them.
Stage(loaded, batch) == RunOps(loaded, batch, [i \in DOMAIN batch |-> batch[i].updates], FALSE)

\* Fault: a record that the batch leaves without fields is not validated.
StageIsValidIfAny(stage, batch) ==
  \A k \in Touched(batch) \cap DOMAIN stage :
    DOMAIN stage[k] # {} => ValidateRecord(k[1], stage[k])

StageIsValid(stage, batch) ==
  \A k \in Touched(batch) \cap DOMAIN stage : ValidateRecord(k[1], stage[k])

\* No increment of the batch has a fraction.
IsWhole(batch) ==
  \A i \in DOMAIN batch : \A j \in DOMAIN batch[i].updates :
    batch[i].updates[j].kind = "increment" => batch[i].updates[j].value.n % 2 = 0

\* The numbers of the records stay within the bound.
Bounded(recs) ==
  \A k \in DOMAIN recs : \A x \in DOMAIN recs[k] :
    LET v == recs[k][x]
        small(num) == num.t = "number" => num.n \in -MaxHalves .. MaxHalves
    IN  small(v) /\ (v.t = "object" => \A y \in DOMAIN v.f : small(v.f[y]))

\* Apply: nothing is written of a batch that is refused, or that the driver
\* cannot carry out on the records as they are stored.
Apply(batch) ==
  /\ GuardWrite(batch)
  /\ \E loaded \in Loads(batch) :
       LET stage == Stage(loaded, batch) IN
         /\ stage.ok /\ StageIsValid(stage.data, batch)
         /\ staged' = stage.data
         /\ drifted' = (loaded # rows)
  /\ \E keeps \in {FALSE, storage = "sql"} :
       LET given == [i \in DOMAIN batch |-> ToDalUpdates(batch[i].updates)]
           written == RunOps(rows, batch, given, keeps) IN
         written.ok /\ Bounded(written.data) /\ rows' = written.data
  /\ whole' = (whole /\ IsWhole(batch))
  /\ UNCHANGED <<storage, mode>>

BatchInit ==
  /\ storage \in {"sql", "document"}
  /\ mode \in IF storage = "sql" THEN {"strict"} ELSE {"strict", "partial", "schemaless"}
  /\ ~ NamesConflict(SchemaKeys)
  /\ rows = NoFields /\ staged = NoFields /\ drifted = FALSE /\ whole = TRUE

BatchNext == \E batch \in Batches : Apply(batch)

BatchSpec == BatchInit /\ [][BatchNext]_batchVars
-----------------------------------------------------------------------------
\* Whatever batches were applied to a document engine, every record is one that
\* its schema admits, although only the last state of a simulated record is
\* validated, and of a record that Get coerced, which is not the one that the
\* driver changes.  It needs that no increment had a fraction: the driver is
\* given an increment without it.
StoredIsValid ==
  storage = "document" /\ whole => \A k \in DOMAIN rows : ValidateRecord(k[1], rows[k])

\* No collection declares two fields that differ in case alone, or one that
\* differs from the key so.
FieldsFoldApart ==
  \A c \in SchemaKeys : \A x, y \in DOMAIN SchemaOf[c] \cup {"id"} : Lower(x) = Lower(y) => x = y

\* The records of a document engine are those that validateOps simulated, when
\* no increment had a fraction and it read the records as they are stored; it
\* does when the schema is strict and its fields fold apart, since coerceToSchema
\* then leaves what was validated alone.  And on every engine no collection is
\* stored under two spellings of its name.
StoredIsStaged ==
  /\ storage = "document" /\ whole =>
       /\ mode = "strict" /\ FieldsFoldApart => ~ drifted
       /\ ~ drifted => rows = staged
  /\ \A k, l \in DOMAIN rows :
       /\ k[2] = l[2] /\ IsDeclared(k[1]) /\ IsDeclared(l[1])
       /\ CanonicalCollection(k[1]) = CanonicalCollection(l[1])
       => k = l
===============================================================================
