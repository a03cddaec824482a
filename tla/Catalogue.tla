------------------------------ MODULE Catalogue ------------------------------
(***************************************************************************)
(* The inferred schema catalogue of pkg/inferred: what Observe adds to the *)
(* statistics of one collection, and what they mean.                       *)
(*                                                                         *)
(* The data of a record is the set of the entries that the walk meets: the *)
(* dotted path of the entry, how many objects are around it and its JSON   *)
(* type.  A key may hold dots of its own, so that two entries of one       *)
(* record may have one path.  Times and array elements are left out.       *)
(***************************************************************************)
EXTENDS Naturals, FiniteSets, Functions

CONSTANTS
  Doc,       \* the data of records
  Entries,   \* the entries of each
  MaxDepth   \* maxDepth

JSONType == {"string", "number", "boolean", "object", "array", "null"}

ASSUME CatalogueAssumption ==
  /\ MaxDepth \in Nat \ {0}
  /\ IsFiniteSet(Doc)
  /\ \A doc \in Doc :
       /\ IsFiniteSet(Entries[doc])
       /\ \A e \in Entries[doc] : e.depth \in Nat /\ e.type \in JSONType

Visited(doc) == {e \in Entries[doc] : e.depth < MaxDepth}
PresentPaths(doc) == {e.path : e \in Visited(doc)}
Visits(doc, p) == {e \in Visited(doc) : e.path = p}

\* The file does not exist, or holds no collection.
Empty == [records |-> 0, fields |-> <<>>, log |-> [doc \in Doc |-> 0]]

\* Fault: the record at hand counts as one that had not the field.
NewFieldOfAll(records) ==
  [samples |-> 0, missing |-> records, types |-> [t \in JSONType |-> 0]]

\* The statistics of a path met for the first time: the records before this one
\* did not have it.
NewField(records) ==
  [samples |-> 0, missing |-> records - 1, types |-> [t \in JSONType |-> 0]]

\* One field after the walk over the data, records counting the record at hand.
ObserveField(old, doc, p) ==
  [old EXCEPT !.samples = @ + Cardinality(Visits(doc, p)),
              !.types = [t \in JSONType |->
                           @[t] + Cardinality({e \in Visits(doc, p) : e.type = t})]]

\* The statistics once the record has been observed.  The log, which the code
\* does not keep, counts what was observed.
Observe(stats, doc) ==
  LET records == stats.records + 1
      present == PresentPaths(doc)
      known == DOMAIN stats.fields
  IN  [records |-> records,
       fields |-> [p \in known \cup present |->
                     IF p \in present
                     THEN ObserveField(IF p \in known THEN stats.fields[p] ELSE NewField(records), doc, p)
                     ELSE [stats.fields[p] EXCEPT !.missing = @ + 1]],
       log |-> [stats.log EXCEPT ![doc] = @ + 1]]

NonNullTypes(field) == {t \in JSONType \ {"null"} : field.types[t] > 0}
HasConflict(field) == Cardinality(NonNullTypes(field)) > 1

\* The type that the observations of a field give it: resolveFieldType.
ResolveFieldType(field) ==
  IF HasConflict(field) \/ NonNullTypes(field) = {} THEN "any"
  ELSE CHOOSE t \in JSONType : t \in NonNullTypes(field)
-----------------------------------------------------------------------------
\* A record that names no path twice.
NamesOnce(doc) == \A p \in PresentPaths(doc) : Cardinality(Visits(doc, p)) = 1

Total(log, weight(_)) == SumFunction([doc \in DOMAIN log |-> log[doc] * weight(doc)])

\* What the statistics of the observed records are, said of all of them at once.
Describes(stats) ==
  LET log == stats.log
      having(doc, p) == p \in PresentPaths(doc)
      as(doc, p, t) == Cardinality({e \in Visits(doc, p) : e.type = t})
      types(p) == {e.type : e \in UNION {Visits(doc, p) : doc \in {d \in Doc : log[d] > 0}}}
  IN  /\ stats.records = Total(log, LAMBDA doc : 1)
      /\ DOMAIN stats.fields = UNION {PresentPaths(doc) : doc \in {d \in Doc : log[d] > 0}}
      /\ \A p \in DOMAIN stats.fields :
           LET f == stats.fields[p] IN
             /\ f.missing = Total(log, LAMBDA doc : IF having(doc, p) THEN 0 ELSE 1)
             /\ f.samples = Total(log, LAMBDA doc : Cardinality(Visits(doc, p)))
             /\ \A t \in JSONType : f.types[t] = Total(log, LAMBDA doc : as(doc, p, t))
             /\ ResolveFieldType(f) \in {"any"} \cup types(p)

\* Every record has a field or lacks it.
AddsUp(stats) ==
  \A p \in DOMAIN stats.fields :
    stats.fields[p].samples + stats.fields[p].missing = stats.records
=============================================================================
