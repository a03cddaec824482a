------------------------------ MODULE Documents ------------------------------
(***************************************************************************)
(* The documents a client writes, one level at a time, and what must hold  *)
(* of the walks and of the scope check for each of them.                   *)
(***************************************************************************)
EXTENDS QueryScope

CONSTANTS
    Leaves,       \* the documents to start from, each with how many levels to put around it
    Self,         \* the id of the database that guards the document
    Around,       \* the collection that the levels put around a document read
    SelectLists,  \* the select lists to give a document
    Clauses(_)    \* a document with one clause more, in every way

VARIABLES
    doc,          \* the document
    left,         \* how many levels may still be put around it
    part          \* the part of the document to write next

vars == <<doc, left, part>>

Col(alias, expr) == [alias |-> alias, expr |-> expr]
Plain(where) == Query(From(Collection("", Around, "", <<>>), <<>>), where,
                      <<Col("", Field("", "f"))>>)
Beside(join) == [Plain(<<>>) EXCEPT !.from = From(Collection("", Around, "", <<>>), <<join>>)]
Flat(source, on) == Join("inner", FALSE, From(source, <<>>), on)

Init == \E leaf \in Leaves : doc = leaf.doc /\ left = leaf.levels /\ part = leaf.part

\* The document gets its select list, and then one clause more.
Selects ==
    /\ part = "columns" /\ part' = "clause"
    /\ \E list \in SelectLists : doc' = [doc EXCEPT !.columns = list]
    /\ UNCHANGED left
AddsClause ==
    /\ part = "clause" /\ part' = "levels"
    /\ \E q \in Clauses(doc) : doc' = q
    /\ UNCHANGED left

\* The document becomes a subquery of a new one, in one of the places a query
\* may stand.
AsSubquery ==
    \/ doc' = [Plain(<<>>) EXCEPT !.from = From(Derived(doc, "x"), <<>>)]
    \/ doc' = Beside(Flat(Derived(doc, "x"), <<>>))
    \/ doc' = Plain(<<Asks("exists", doc)>>)
    \/ doc' = Plain(<<Holds("equal", <<Field("", "f"), Asks("scalar", doc)>>)>>)
    \/ doc' = Beside(Flat(Collection("", Around, "x", <<>>), <<Asks("exists", doc)>>))
    \/ doc' = [Plain(<<>>) EXCEPT !.having = <<Asks("exists", doc)>>]
    \/ doc' = [Plain(<<>>) EXCEPT !.orderBy = <<Asks("scalar", doc)>>]
    \/ doc' = [Plain(<<>>) EXCEPT !.groupBy = <<Asks("scalar", doc)>>]
    \/ doc' = [Plain(<<>>) EXCEPT !.columns = <<Col("", Asks("scalar", doc))>>]
    \/ doc' = [Plain(<<>>) EXCEPT !.from.base.scan = <<Asks("scalar", doc)>>]

\* The document grows in place: its relation tree becomes the tree of a join,
\* it gets a joined source, its WHERE a group and its columns arithmetic.
InPlace ==
    \/ doc' = [doc EXCEPT !.from = From(Collection("", Around, "y", <<>>), <<Join("left", TRUE, doc.from, <<>>)>>)]
    \/ doc' = [doc EXCEPT !.from.joins = Append(@, Flat(Collection("", Around, "y", <<>>), <<>>))]
    \/ doc' = [doc EXCEPT !.where = <<Holds("group", @)>>]
    \/ doc' = [doc EXCEPT !.columns[1].expr = Holds("binary", <<@, Field("", "f")>>)]

Wraps ==
    /\ part = "levels" /\ left > 0 /\ left' = left - 1
    /\ AsSubquery \/ InPlace
    /\ UNCHANGED part

\* A level whose names are in question becomes the query of an EXISTS.
Tests ==
    /\ part = "levels" /\ left = 0 /\ doc.from.joins = <<>> /\ doc.columns # <<Col("", Field("", "f"))>>
    /\ part' = "tested"
    /\ doc' = Plain(<<Asks("exists", doc)>>)
    /\ UNCHANGED left

Next == Selects \/ AddsClause \/ Wraps \/ Tests

Spec == Init /\ [][Next]_vars

----------------------------------------------------------------------------
(* Properties. *)

\* Nothing a document reads escapes the classifier: the reads it lists, which
\* the server authorises one by one, are the collection sources of the whole
\* tree as often as they stand in it, and a document of the single-collection
\* profile, authorised by one name alone, reads that collection once.
ClassifierListsEveryRead ==
    LET profile == ClassifyTugQL(doc)
        every == EveryRead(doc)
        times(s, r) == Cardinality({i \in DOMAIN s : s[i].db = r.db /\ s[i].name = r.name})
    IN profile.why = {} =>
          /\ \A r \in ToSet(every) \cup ToSet(profile.reads) : times(profile.reads, r) = times(every, r)
          /\ profile.kind = "single" => Len(every) = 1 /\ profile.reads[1].db = ""

\* The executor's walk never refuses for its depth or nesting what the
\* classifier accepted, and never disagrees with its profile: a document is
\* refused there only for the differences the code lists, a field name of the
\* wider rule, a parameter, or two columns of one name.
WalkAdmitsClassified ==
    LET profile == ClassifyTugQL(doc)
        walked == Inspect(doc)
    IN profile.why = {} => /\ walked.why \subseteq {"field", "param", "duplicate"}
                           /\ CheckProfile(walked, profile)

\* The guards nest: the source guard is never laxer about depth than the name
\* walk it says it follows, it visits every read, so that only declared
\* collections of this database get past it, and the field guard, which runs
\* after both, never refuses for depth what they let through.
GuardsNest ==
    LET names == NamesQuery(RelationalNames(QuotedNames), doc, 0, {})
        guard == GuardQuery(doc, 0)
    IN /\ Why(guard) = {} => /\ "depth" \notin Why(names) \cup Why(FieldsQuery(doc, <<>>, 0))
                             /\ ToSet(ReadsOf(guard)) = ToSet(EveryRead(doc))
       /\ Why(GuardSources(doc, Self)) = {} =>
             \A s \in ToSet(EveryRead(doc)) : s.db \in {"", Self} /\ s.name \in DOMAIN Columns
       /\ QueryCollections(doc) # {} => QueryCollections(doc) = {s.name : s \in ToSet(EveryRead(doc))}

\* A database with access policies is only ever handed a read of the one
\* collection its policy decides, and the document a server engine is handed
\* names no database in any joined relation, whatever the tree, and reads the
\* same collections.
HandedIsPlain ==
    LET handed == WithoutDatabaseNames(doc)
        names(q) == Mapped(LAMBDA s : s.name, EveryRead(q))
    IN /\ SingleSourceRead(doc) => EveryRead(doc) = <<doc.from.base>>
       /\ doc.from.joins # <<>> => \A s \in ToSet(FlatSources(handed.from)) : s.db = ""
       /\ names(doc) = names(handed)

\* Every executor reads every name of a document the scope check accepted, its
\* aliases resolved, from where the document means it, or fails: no plan
\* answers with the values of another source, of another column, or with
\* nothing, at any level of the document.  The key pseudo-field is left out
\* as a column, where scope.go does not look at it, and so are the columns of
\* an EXISTS, which do not change whether it finds a row.
NamesReadAsMeant ==
    LET before == LevelsOf(Root(doc))
        after == LevelsOf([Root(doc) EXCEPT !.q = ResolveQuery(doc)])
        top == [inside |-> FALSE, argument |-> FALSE]
        same(level, resolved, clause, n, r, columns) ==
            \A plan \in Plans(level) :
                LET value == PlanValue(plan, resolved.q, clause, r, FALSE, columns)
                IN Fails(value) \/ value = Meaning(level.q, clause, n, top)
        clause(level, resolved, name, nodes, results) ==
            \A k \in DOMAIN nodes :
                same(level, resolved, name, nodes[k], results[k], ToSet(resolved.q.columns))
    IN Inspect(doc).why = {} /\ CheckScopes(doc) =>
        \A i \in DOMAIN before :
            LET l == before[i]
                r == after[i]
                joins == FlatJoins(l.q.from)
            IN /\ \A j \in DOMAIN joins : clause(l, r, "on", joins[j].on, FlatJoins(r.q.from)[j].on)
               /\ clause(l, r, "where", l.q.where, r.q.where)
               /\ clause(l, r, "groupBy", l.q.groupBy, r.q.groupBy)
               /\ clause(l, r, "having", l.q.having, r.q.having)
               /\ clause(l, r, "orderBy", l.q.orderBy, r.q.orderBy)
               /\ \A k \in {m \in DOMAIN l.q.columns : l.q.columns[m].expr.name # KeyField /\ ~l.exists} :
                     same(l, r, "columns", l.q.columns[k].expr, r.q.columns[k].expr,
                          {r.q.columns[m] : m \in 1..(k - 1)})
=============================================================================
