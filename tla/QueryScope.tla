----------------------------- MODULE QueryScope -----------------------------
(***************************************************************************)
(* Which source, or which column, a name of a document is read from.  The  *)
(* join executor checks every level of a document (checkScopes), replaces  *)
(* the aliases its executors do not know (resolveAliases) and hands the    *)
(* result to DALgo.  DALgo and the mounts are external: Plans says where   *)
(* each of them reads a name, Meaning what the document means by it.       *)
(***************************************************************************)
EXTENDS QueryWalks

CONSTANTS
    Unlisted,   \* the collections whose mount supplies no field list
    KeyField    \* the key pseudo-field of the document engines

----------------------------------------------------------------------------
(* The levels of a document: the root and every query inside it. *)

Level(q, exists, whole) == [q |-> q, exists |-> exists, whole |-> whole]

RECURSIVE LevelsOf(_), NodeLevels(_)
NodeLevels(n) ==
    FlattenSeq([i \in DOMAIN n.query |-> LevelsOf(Level(n.query[i], n.kind = "exists", FALSE))])
    \o FlattenSeq([i \in DOMAIN n.kids |-> NodeLevels(n.kids[i])])
LevelsOf(level) ==
    LET q == level.q
        sources == FlatSources(q.from)
        joins == FlatJoins(q.from)
        nodes == FlattenSeq([i \in DOMAIN joins |-> joins[i].on])
                 \o q.where \o q.groupBy \o q.having \o q.orderBy
                 \o [i \in DOMAIN q.columns |-> q.columns[i].expr]
    IN <<level>>
       \o FlattenSeq([i \in DOMAIN sources |->
             FlattenSeq([k \in DOMAIN sources[i].query |-> LevelsOf(Level(sources[i].query[k], FALSE, FALSE))])])
       \o FlattenSeq([i \in DOMAIN nodes |-> NodeLevels(nodes[i])])

\* How the in-memory route runs a document: by DALgo's federated executor when
\* every source names its database, which hands a plain read of one source to
\* the mount whole, and by the recursive executor otherwise.
RECURSIVE HoldsNull(_)
HoldsNull(n) == n.kind = "null" \/ \E k \in ToSet(n.kids) : HoldsNull(k)
Evaluated(q) ==
    /\ ~q.money /\ Len(EveryRead(q)) = 1
    /\ \/ \E n \in ToSet(q.where \o q.having) : HoldsNull(n)
       \/ \E n \in ToSet(q.orderBy) : n.kind # "field"
Federated(q) ==
    /\ q.money \/ \A s \in ToSet(EveryRead(q)) : s.db # ""
    /\ ~HasSubquery(q) /\ ~Evaluated(q)
HandedWhole(q) ==
    /\ Federated(q) /\ ~HasAggregation(q)
    /\ q.from.joins = <<>> /\ q.from.base.scan = <<>>
Root(q) == Level(q, FALSE, HandedWhole(q))

\* suppliedFields: a derived source supplies no list.
Supplied(s) == s.kind = "collection" /\ s.name \notin Unlisted
CarriedBy(s) ==
    IF s.kind = "collection" THEN Columns[s.name]
    ELSE {OutputName(c) : c \in ToSet(s.query[1].columns)} \ {""}

----------------------------------------------------------------------------
(* What a select list calls its columns. *)

SelectedName(c) == OutputName(c)

RECURSIVE ReadsAColumn(_, _)
ReadsAColumn(n, named) ==
    \/ n.kind = "field" /\ n.qual = "" /\ n.name \in named
    \/ n.kind = "binary" /\ \E k \in ToSet(n.kids) : ReadsAColumn(k, named)

IsNamedAs(c) == c.expr.kind = "field" /\ c.expr.qual = "" /\ c.expr.name = c.alias

\* The columns whose alias resolveAliases may replace, of a query that aggregates.
ReplaceableAliases(columns) ==
    LET named == {SelectedName(c) : c \in ToSet(columns)} \ {""}
    IN {c \in ToSet(columns) : c.alias # "" /\ (ReadsAColumn(c.expr, named) => IsNamedAs(c))}

\* namesOfColumns: the columns that select a field, and the computed ones.
FieldColumns(columns) == {c \in ToSet(columns) : c.alias # "" /\ c.expr.kind = "field"}
ComputedNames(columns) == {c.alias : c \in {d \in ToSet(columns) : d.expr.kind # "field"}} \ {""}

\* isOwnName, for the columns before the one in hand.
IsOwnName(c, sources) ==
    /\ c.expr.kind = "field" /\ c.expr.name = OutputName(c)
    /\ c.expr.qual = "" \/ (Len(sources) = 1 /\ c.expr.qual = Identity(sources[1]))

EarlierNames(columns, i, sources) ==
    {OutputName(columns[k]) : k \in {j \in 1..(i - 1) :
        /\ ~IsOwnName(columns[j], sources)
        /\ \A l \in (j + 1)..(i - 1) : OutputName(columns[l]) # OutputName(columns[j])}} \ {""}

----------------------------------------------------------------------------
(* checkScopes.  A reference is a field with where it stands: its clause,   *)
(* whether it is inside arithmetic, and inside an aggregate's argument.     *)

RECURSIVE FieldsIn(_, _, _)
FieldsIn(n, inside, argument) ==
    IF n.kind = "field"
      THEN {[name |-> n.name, qual |-> n.qual, inside |-> inside, argument |-> argument]}
      ELSE UNION {FieldsIn(k, inside \/ n.kind = "binary", argument \/ n.kind = "aggregate")
                    : k \in ToSet(n.kids)}
ClauseFields(nodes) == UNION {FieldsIn(n, FALSE, FALSE) : n \in ToSet(nodes)}

\* The fields of a level, each with the way its clause has it read (readKind).
LevelRefs(level) ==
    LET q == level.q
        aggregated == HasAggregation(q)
        kind == IF aggregated THEN "aggregated" ELSE "anywhere"
        on == UNION {ClauseFields(j.on) : j \in ToSet(FlatJoins(q.from))}
        of(clause, k, fields, earlier) ==
            {[clause |-> clause, kind |-> k, f |-> f, earlier |-> earlier] : f \in fields}
    IN of("on", "on", on, {}) \cup of("where", "anywhere", ClauseFields(q.where), {})
       \cup of("groupBy", kind, ClauseFields(q.groupBy), {})
       \cup of("having", kind, ClauseFields(q.having), {})
       \cup of("orderBy", IF aggregated THEN kind ELSE "ordered", ClauseFields(q.orderBy), {})
       \cup UNION {of("columns", kind, FieldsIn(q.columns[i].expr, FALSE, FALSE),
                      IF aggregated THEN EarlierNames(q.columns, i, FlatSources(q.from)) ELSE {})
                     : i \in DOMAIN q.columns}

\* scopeFlow.field and .expression: an alias that stands for its column, a
\* refusal that needs no list, or a field of a source to look for.
ReadAsColumn(r, q) ==
    /\ r.f.qual = ""
    /\ \/ /\ r.kind = "aggregated" /\ r.clause \in {"having", "orderBy"} /\ ~r.f.argument
          /\ \E c \in ReplaceableAliases(q.columns) : c.alias = r.f.name
       \/ /\ r.kind = "ordered" /\ ~r.f.inside
          /\ \E c \in FieldColumns(q.columns) : c.alias = r.f.name

RefusedField(r, level) ==
    LET named == {c \in FieldColumns(level.q.columns) : c.alias = r.f.name}
        key == r.f.name = KeyField \/ (r.f.qual = "" /\ ~r.f.inside
                                       /\ \E c \in named : c.expr.name = KeyField)
    IN \/ r.kind = "ordered" /\ key /\ ~level.whole
       \/ /\ r.kind = "ordered" /\ r.f.qual = "" /\ ~r.f.inside /\ named = {}
          /\ r.f.name \in ComputedNames(level.q.columns)
       \/ r.f.qual = "" /\ r.f.name \in r.earlier /\ ~r.f.argument

\* A name inside the arithmetic of an ORDER BY that a column also carries.
AlsoAlias(r, q) ==
    /\ r.kind = "ordered" /\ r.f.inside
    /\ \/ \E c \in FieldColumns(q.columns) : c.alias = r.f.name /\ c.expr.name # r.f.name
       \/ r.f.name \in ComputedNames(q.columns)

\* Fault: a name of an ON condition may belong to any source.
RefCheckAnyOn(r, sources) ==
    LET carriers == {i \in DOMAIN sources : r.f.name \in CarriedBy(sources[i])}
    IN \/ Cardinality(carriers) > 1
       \/ Cardinality(carriers) = 1 /\ r.kind = "aggregated" /\ 1 \notin carriers
       \/ carriers = {} /\ r.kind = "ordered" /\ r.f.name # KeyField
\* scopeRef.check: every source supplied its list.
RefCheck(r, sources) ==
    LET carriers == {i \in DOMAIN sources : r.f.name \in CarriedBy(sources[i])}
    IN \/ Cardinality(carriers) > 1
       \/ Cardinality(carriers) = 1 /\ r.kind \in {"aggregated", "on"} /\ 1 \notin carriers
       \/ carriers = {} /\ r.kind = "ordered" /\ r.f.name # KeyField

CheckUnqualified(refs, level, sources) ==
    LET several == Len(sources) >= 2
        looked == {r \in refs : several \/ r.kind = "ordered"}
    IN /\ looked # {}
       /\ IF \A i \in DOMAIN sources : Supplied(sources[i])
            THEN \E r \in looked : RefCheck(r, sources)
            ELSE several \/ \E r \in refs : AlsoAlias(r, level.q)

CheckQualified(refs, sources) ==
    \E r \in refs : \E i \in DOMAIN sources :
        /\ r.kind = "ordered" /\ r.f.qual = Identity(sources[i]) /\ r.f.name # KeyField
        /\ \A k \in 1..(i - 1) : Identity(sources[k]) # r.f.qual
        /\ Supplied(sources[i]) /\ r.f.name \notin CarriedBy(sources[i])

CheckExistsFields(refs, level, sources) ==
    /\ level.exists /\ Len(sources) = 1 /\ Supplied(sources[1])
    /\ \E r \in refs : /\ r.clause # "columns" /\ r.kind # "ordered"
                       /\ r.f.qual \in {"", Identity(sources[1])} /\ r.f.name # KeyField
                       /\ r.f.name \notin CarriedBy(sources[1])

\* The level is refused.
LevelRefused(level) ==
    LET sources == FlatSources(level.q.from)
        refs == LevelRefs(level)
        fields == {r \in refs : ~ReadAsColumn(r, level.q)}
    IN \/ \E r \in refs : RefusedField(r, level)
       \/ CheckUnqualified({r \in fields : r.f.qual = ""}, level, sources)
       \/ CheckQualified({r \in refs : r.f.qual # ""}, sources)
       \/ CheckExistsFields(fields, level, sources)

CheckScopes(q) == \A level \in ToSet(LevelsOf(Root(q))) : ~LevelRefused(level)

----------------------------------------------------------------------------
(* resolveAliases. *)

RECURSIVE ReplaceIn(_, _)
ReplaceIn(n, columns) ==
    LET of == {c \in columns : c.alias = n.name}
        inside(k) == ReplaceIn(k, columns)
    IN CASE n.kind = "field" -> IF n.qual = "" /\ of # {} THEN (CHOOSE c \in of : TRUE).expr ELSE n
         [] n.kind \in {"aggregate", "exists", "scalar"} -> n
         [] OTHER -> [n EXCEPT !.kids = Mapped(inside, n.kids)]

RECURSIVE ResolveQuery(_), ResolveFrom(_), ResolveNode(_)
ResolveNode(n) == [n EXCEPT !.kids = IF n.kind = "aggregate" THEN n.kids ELSE Mapped(ResolveNode, n.kids),
                            !.query = Mapped(ResolveQuery, n.query)]
ResolveSource(s) == [s EXCEPT !.query = Mapped(ResolveQuery, s.query)]
ResolveJoin(j) == [j EXCEPT !.from = ResolveFrom(j.from), !.on = Mapped(ResolveNode, j.on)]
ResolveFrom(f) == From(ResolveSource(f.base), Mapped(ResolveJoin, f.joins))
ResolveColumn(c) == [c EXCEPT !.expr = ResolveNode(c.expr)]

ResolveQuery(q) ==
    LET columns == Mapped(ResolveColumn, q.columns)
        aggregated == HasAggregation(q)
        aliases == IF aggregated THEN ReplaceableAliases(columns) ELSE FieldColumns(columns)
        replaced(n) == ReplaceIn(ResolveNode(n), aliases)
        ordered(n) == IF aggregated \/ n.kind = "field" THEN replaced(n) ELSE ResolveNode(n)
    IN [q EXCEPT !.from = ResolveFrom(q.from), !.where = Mapped(ResolveNode, q.where),
                 !.groupBy = Mapped(ResolveNode, q.groupBy), !.columns = columns,
                 !.having = IF aggregated THEN Mapped(replaced, q.having) ELSE Mapped(ResolveNode, q.having),
                 !.orderBy = Mapped(ordered, q.orderBy)]

----------------------------------------------------------------------------
(* Where a name is read from: a field of a source, nothing (null), or a     *)
(* refusal.  A value mirrors its expression with every name so read.        *)

Read(what, at, name, of) == [what |-> what, at |-> at, name |-> name, of |-> of]
NoValue == Read("null", 0, "", <<>>)
Failure == Read("error", 0, "", <<>>)
FieldOf(i, name) == Read("field", i, name, <<>>)

Carriers(q, name) ==
    LET sources == FlatSources(q.from) IN {i \in DOMAIN sources : name \in CarriedBy(sources[i])}
AllSupplied(q) == \A s \in ToSet(FlatSources(q.from)) : Supplied(s)

\* The source that carries a name; the one source without a list has any name.
OfCarrier(q, name) ==
    LET at == Carriers(q, name)
    IN IF name = KeyField THEN Read("key", 0, name, <<>>)
       ELSE IF Cardinality(at) = 1 THEN FieldOf(CHOOSE i \in at : TRUE, name)
       ELSE IF at = {} /\ Len(FlatSources(q.from)) = 1 /\ ~AllSupplied(q) THEN FieldOf(1, name)
       ELSE Failure

OfQualified(q, f) ==
    LET sources == FlatSources(q.from)
        at == {i \in DOMAIN sources : Identity(sources[i]) = f.qual}
    IN IF at = {} THEN Read("outer", 0, f.name, <<>>) ELSE FieldOf(CHOOSE i \in at : TRUE, f.name)

\* What the document means by an unqualified name: an alias in HAVING and
\* ORDER BY is the column, except that inside the arithmetic of an ORDER BY
\* that does not aggregate a field of a source goes first.
RECURSIVE Meaning(_, _, _, _)
Meaning(q, clause, n, in) ==
    LET named == {c \in ToSet(q.columns) : c.alias = n.name}
        column == Meaning(q, "columns", (CHOOSE c \in named : TRUE).expr, [inside |-> FALSE, argument |-> FALSE])
        fieldFirst == ~HasAggregation(q) /\ in.inside /\ Carriers(q, n.name) # {}
    IN CASE n.kind = "field" /\ n.qual # "" -> OfQualified(q, n)
         [] n.kind = "field" /\ n.qual = "" ->
              IF clause \in {"having", "orderBy"} /\ ~in.argument /\ named # {} /\ ~fieldFirst
                THEN column ELSE OfCarrier(q, n.name)
         [] OTHER -> Read(n.kind, 0, "", [i \in DOMAIN n.kids |->
                        Meaning(q, clause, n.kids[i],
                                [inside |-> in.inside \/ n.kind = "binary",
                                 argument |-> in.argument \/ n.kind = "aggregate"])])

\* The executors that may run a level, and where each reads a bare name.  What
\* DALgo's aggregation makes of the key is not modelled.
Plans(level) ==
    LET q == level.q
        sources == FlatSources(q.from)
    IN IF Len(sources) = 1 /\ level.exists THEN {"rows"}
       ELSE IF Len(sources) = 1 /\ level.whole THEN {"mount"}
       ELSE IF Len(sources) = 2 /\ Federated(q) THEN {"recursive", "streaming"}
       ELSE {"recursive"}

PlanReads(plan, q, clause, name, argument) ==
    LET sources == FlatSources(q.from)
        first == IF name \in CarriedBy(sources[1]) \/ ~Supplied(sources[1])
                   THEN FieldOf(1, name) ELSE NoValue
        carrier == IF AllSupplied(q) THEN OfCarrier(q, name) ELSE first
        known == IF plan = "mount" \/ HasAggregation(q) THEN OfCarrier(q, name)
                 ELSE IF AllSupplied(q) THEN Failure ELSE NoValue
    IN IF name = KeyField THEN known
       ELSE IF plan = "rows" THEN first
       ELSE IF plan = "mount" THEN (IF clause = "orderBy" THEN first ELSE carrier)
       ELSE IF HasAggregation(q) /\ (clause \in {"groupBy", "having", "orderBy", "columns"} \/ argument)
         THEN (IF carrier = Failure THEN Failure ELSE first)
       ELSE IF plan = "streaming" /\ Carriers(q, name) # {}
               /\ (clause = "on" \/ Cardinality(Carriers(q, name)) > 1)
         THEN first
       ELSE carrier

\* The value an executor computes: DALgo's aggregation reads a bare name
\* outside an aggregate as the column of that name first (in the columns, an
\* earlier one).
RECURSIVE PlanValue(_, _, _, _, _, _)
PlanValue(plan, q, clause, n, argument, columns) ==
    LET named == {c \in columns : SelectedName(c) = n.name}
    IN CASE n.kind = "field" /\ n.qual # "" -> OfQualified(q, n)
         [] n.kind = "field" /\ n.qual = "" ->
              IF HasAggregation(q) /\ clause \in {"columns", "having", "orderBy"} /\ ~argument /\ named # {}
                THEN PlanValue(plan, q, "columns", (CHOOSE c \in named : TRUE).expr, FALSE, {})
                ELSE PlanReads(plan, q, clause, n.name, argument)
         [] OTHER -> Read(n.kind, 0, "", [i \in DOMAIN n.kids |->
                        PlanValue(plan, q, clause, n.kids[i], argument \/ n.kind = "aggregate", columns)])

RECURSIVE Fails(_)
Fails(value) == value.what = "error" \/ \E i \in DOMAIN value.of : Fails(value.of[i])
=============================================================================
