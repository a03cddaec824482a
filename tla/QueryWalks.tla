----------------------------- MODULE QueryWalks -----------------------------
(***************************************************************************)
(* The walks a TugQL document passes before anything is read: the profile  *)
(* classifier, the name walk, the walk of the join executor, the source    *)
(* guard, the field guard of the server engines, and the rewrite that      *)
(* takes the database names out of a join.  Every walk recurses over the   *)
(* same tree and counts its depth in its own way.                          *)
(*                                                                         *)
(* A walk is an operator from a tree to its trace: the collections it      *)
(* visits and the reasons it has to refuse the tree, in the order it meets *)
(* them.  The code stops at the first refusal; a document is accepted when *)
(* the trace holds none.                                                   *)
(***************************************************************************)
EXTENDS Integers, Sequences, SequencesExt, FiniteSets

CONSTANTS
    MaxSubqueryDepth,  \* relationalMaxSubqueryDepth
    MaxSources,        \* relationalMaxSources
    MaxNesting,        \* relationalMaxNesting, and maxWalkNesting
    MaxWalkDepth,      \* maxWalkDepth
    MaxTreeDepth,      \* maxQueryTreeDepth
    PlainNames,        \* the names the strict rule (ValidateFieldName) takes
    QuotedNames,       \* the names the quoted rule takes
    Identifiers,       \* the names validateIdentifier takes
    Columns,           \* the declared collections of the mount, with their columns
    Fold(_)            \* a name as the server of the mount holds it

\* The bounds of the code: 4 and 8 against 16, and 64 on both sides.
ASSUME BoundsAssumption == MaxWalkDepth >= MaxSubqueryDepth + MaxSources - 1

----------------------------------------------------------------------------
(* The tree: queries, relation trees, sources, conditions and expressions. *)

\* A condition or an expression, with the operands and the query it holds.
Node(kind, name, qual, kids, query) ==
    [kind |-> kind, name |-> name, qual |-> qual, kids |-> kids, query |-> query]

Field(qual, name) == Node("field", name, qual, <<>>, <<>>)
Param == Node("param", "", "", <<>>, <<>>)
Holds(kind, kids) == Node(kind, "", "", kids, <<>>)
Asks(kind, query) == Node(kind, "", "", <<>>, <<query>>)

Collection(db, name, alias, scan) ==
    [kind |-> "collection", db |-> db, name |-> name, alias |-> alias,
     scan |-> scan, query |-> <<>>]
Derived(query, alias) ==
    [kind |-> "derived", db |-> "", name |-> "", alias |-> alias,
     scan |-> <<>>, query |-> <<query>>]

From(base, joins) == [base |-> base, joins |-> joins]
\* A join of one source (tree = FALSE) or of a relation tree.
Join(type, tree, from, on) == [type |-> type, tree |-> tree, from |-> from, on |-> on]

\* A clause is the sequence of its conditions or expressions; a column is its
\* alias and its expression.  limit is "in", "over" or "negative".
Query(from, where, columns) ==
    [from |-> from, where |-> where, groupBy |-> <<>>, having |-> <<>>,
     orderBy |-> <<>>, columns |-> columns, limit |-> "in", cursor |-> FALSE,
     money |-> FALSE]

----------------------------------------------------------------------------
(* The traces of the walks. *)

Refuse(reason, holds) == IF holds THEN <<[refused |-> reason]>> ELSE <<>>
Reads(source) == <<[read |-> source]>>
Both(a, b) == a \o b
All(traces) == FlattenSeq(traces)
Each(W(_), items) == All([i \in DOMAIN items |-> W(items[i])])

Mapped(F(_), items) == [i \in DOMAIN items |-> F(items[i])] \o <<>>

Why(trace) == {e.refused : e \in {x \in ToSet(trace) : "refused" \in DOMAIN x}}
ReadsOf(trace) ==
    LET reads == SelectSeq(trace, LAMBDA x : "read" \in DOMAIN x)
    IN [i \in DOMAIN reads |-> reads[i].read]
\* A read as a profile lists it.
Listed(reads) == [i \in DOMAIN reads |-> [db |-> reads[i].db, name |-> reads[i].name]]

\* dal.HasSubquery and the collections a document reads: what the walks must
\* find, wherever in the tree it stands.
RECURSIVE EveryRead(_), FromReads(_), NodeReads(_)
FromReads(f) ==
    (IF f.base.kind = "collection"
       THEN <<f.base>> \o FlattenSeq([i \in DOMAIN f.base.scan |-> NodeReads(f.base.scan[i])])
       ELSE EveryRead(f.base.query[1]))
    \o FlattenSeq([i \in DOMAIN f.joins |->
          FromReads(f.joins[i].from)
          \o FlattenSeq([j \in DOMAIN f.joins[i].on |-> NodeReads(f.joins[i].on[j])])])
NodeReads(n) ==
    IF n.query # <<>> THEN EveryRead(n.query[1])
                      ELSE FlattenSeq([i \in DOMAIN n.kids |-> NodeReads(n.kids[i])])
EveryRead(q) ==
    FromReads(q.from) \o
    LET nodes == q.where \o q.groupBy \o q.having \o q.orderBy
                 \o [i \in DOMAIN q.columns |-> q.columns[i].expr]
    IN FlattenSeq([i \in DOMAIN nodes |-> NodeReads(nodes[i])])

RECURSIVE HasSubquery(_), FromHasSubquery(_), NodeHasSubquery(_)
FromHasSubquery(f) ==
    \/ f.base.kind = "derived"
    \/ \E i \in DOMAIN f.base.scan : NodeHasSubquery(f.base.scan[i])
    \/ \E i \in DOMAIN f.joins : \/ FromHasSubquery(f.joins[i].from)
                                 \/ \E j \in DOMAIN f.joins[i].on : NodeHasSubquery(f.joins[i].on[j])
NodeHasSubquery(n) == n.query # <<>> \/ \E i \in DOMAIN n.kids : NodeHasSubquery(n.kids[i])
HasSubquery(q) ==
    \/ FromHasSubquery(q.from)
    \/ \E n \in ToSet(q.where \o q.groupBy \o q.having \o q.orderBy) : NodeHasSubquery(n)
    \/ \E c \in ToSet(q.columns) : NodeHasSubquery(c.expr)

RECURSIVE HoldsAggregate(_)
HoldsAggregate(n) == n.kind = "aggregate" \/ \E i \in DOMAIN n.kids : HoldsAggregate(n.kids[i])
HasAggregation(q) ==
    \/ q.groupBy # <<>> \/ q.having # <<>>
    \/ \E c \in ToSet(q.columns) : HoldsAggregate(c.expr)
    \/ \E n \in ToSet(q.orderBy) : HoldsAggregate(n)

----------------------------------------------------------------------------
(* The profile classifier.  A subquery is a level; a join is not.  nest     *)
(* counts the conditions and expressions around a node, across subqueries.  *)

RECURSIVE ProfileQuery(_, _, _), ProfileFrom(_, _, _), ProfileNode(_, _, _)

\* Fault: a derived source does not count as a subquery level.
ProfileSourceFlat(s, depth, nest) ==
    IF s.kind = "derived" THEN ProfileQuery(s.query[1], depth, nest)
    ELSE Both(Refuse("shape", s.scan # <<>>), Reads(s))
ProfileSource(s, depth, nest) ==
    IF s.kind = "derived" THEN ProfileQuery(s.query[1], depth + 1, nest)
    ELSE Both(Refuse("shape", s.scan # <<>>), Reads(s))

\* Fault: the ON conditions are not walked.
ProfileFromWithoutOn(f, depth, nest) ==
    Both(ProfileSource(f.base, depth, nest),
         Each(LAMBDA j : ProfileFrom(j.from, depth, nest), f.joins))
ProfileFrom(f, depth, nest) ==
    Both(ProfileSource(f.base, depth, nest),
         Each(LAMBDA j : All(<<Refuse("shape", j.type \notin {"inner", "left"}),
                               ProfileFrom(j.from, depth, nest),
                               Each(LAMBDA n : ProfileNode(n, depth, nest), j.on)>>),
              f.joins))

ProfileNode(n, depth, nest) ==
    All(<<Refuse("nesting", nest + 1 > MaxNesting),
          Each(LAMBDA k : ProfileNode(k, depth, nest + 1), n.kids),
          Each(LAMBDA q : ProfileQuery(q, depth + 1, nest + 1), n.query)>>)

ProfileQuery(q, depth, nest) ==
    LET node(n) == ProfileNode(n, depth, nest)
    IN All(<<Refuse("depth", depth > MaxSubqueryDepth),
             Refuse("shape", q.cursor \/ (q.money /\ depth # 0)),
             Refuse("limit", q.limit = "negative" \/ (q.limit = "over" /\ depth = 0)),
             ProfileFrom(q.from, depth, nest), Each(node, q.where), Each(node, q.groupBy),
             Each(node, q.having), Each(node, q.orderBy),
             Each(LAMBDA c : node(c.expr), q.columns)>>)

\* unsupportedMoneyJoinShape: no join, or one flat join on an equality of a
\* field of the root and one of the joined source.
Identity(source) == IF source.alias # "" THEN source.alias ELSE source.name
MoneyJoinShape(f) ==
    \/ f.joins = <<>>
    \/ /\ Len(f.joins) = 1
       /\ f.joins[1].from.joins = <<>>
       /\ \E n \in ToSet(f.joins[1].on) :
             /\ n.kind = "equal" /\ \A k \in ToSet(n.kids) : k.kind = "field"
             /\ {k.qual : k \in ToSet(n.kids)} = {Identity(f.base), Identity(f.joins[1].from.base)}

----------------------------------------------------------------------------
(* The name walk.  Expressions, conditions and subqueries each count one    *)
(* level; the nested trees of a join are flattened into the query's level.  *)

RECURSIVE FlatSources(_), FlatJoins(_), TreeLevels(_)
FlatSources(f) == <<f.base>> \o FlattenSeq([i \in DOMAIN f.joins |-> FlatSources(f.joins[i].from)])
FlatJoins(f) == f.joins \o FlattenSeq([i \in DOMAIN f.joins |-> FlatJoins(f.joins[i].from)])
TreeLevels(f) == \* how deep flattenFrom recurses: into the relation trees alone
    LET below == {TreeLevels(f.joins[i].from) + 1 : i \in {k \in DOMAIN f.joins : f.joins[k].tree}}
    IN CHOOSE m \in below \cup {0} : \A b \in below : b <= m

FlattenFrom(f, depth) == Refuse("depth", depth + TreeLevels(f) > MaxTreeDepth)

ScopeNames(s) == {s.name, s.alias} \ {""}

\* w is the variant: [rule, relational, membership].
RECURSIVE NamesQuery(_, _, _, _), NamesNode(_, _, _, _)

NamesSources(w, sources, depth, scope) ==
    All(<<Each(LAMBDA s : Both(Refuse("shape", s.db # "" /\ ~w.relational),
                               Refuse("name", (s.alias # "" \/ s.kind = "derived")
                                                  /\ s.alias \notin Identifiers)), sources),
          Each(LAMBDA s : Both(Each(LAMBDA n : NamesNode(w, n, depth + 1, scope), s.scan),
                               Each(LAMBDA q : NamesQuery(w, q, depth + 1, scope), s.query)),
               sources)>>)

NamesNode(w, n, depth, scope) ==
    All(<<Refuse("depth", depth > MaxTreeDepth),
          Refuse("membership", n.kind = "in" /\ w.membership),
          Refuse("shape", n.kind = "null" /\ ~w.relational),
          Refuse("name", n.kind = "field" /\ (\/ n.name \notin w.rule
                                              \/ n.qual \notin scope \cup Identifiers \cup {""})),
          Each(LAMBDA k : NamesNode(w, k, depth + 1, scope), n.kids),
          Each(LAMBDA q : NamesQuery(w, q, depth + 1, scope), n.query)>>)

NamesQuery(w, q, depth, outer) ==
    LET sources == FlatSources(q.from)
        scope == outer \cup UNION {ScopeNames(s) : s \in ToSet(sources)}
        node(n) == NamesNode(w, n, depth, scope)
    IN All(<<Refuse("depth", depth > MaxTreeDepth), FlattenFrom(q.from, depth),
             NamesSources(w, sources, depth, scope),
             Each(LAMBDA j : Each(LAMBDA n : NamesNode(w, n, depth + 1, scope), j.on), FlatJoins(q.from)),
             Each(LAMBDA c : Both(Refuse("name", c.alias # "" /\ c.alias \notin Identifiers),
                                  node(c.expr)), q.columns),
             Each(node, q.where), Each(node, q.having), Each(node, q.groupBy), Each(node, q.orderBy)>>)

RelationalNames(rule) == [rule |-> rule, relational |-> TRUE, membership |-> FALSE]
SingleNames(rule) == [rule |-> rule, relational |-> FALSE, membership |-> FALSE]

\* validateTugQL: the single-collection profile.
ValidateTugQL(q, rule) ==
    All(<<Refuse("shape", \/ q.from.joins # <<>> \/ q.from.base.kind # "collection"
                          \/ q.from.base.alias # "" \/ q.from.base.db # "" \/ q.from.base.scan # <<>>
                          \/ q.groupBy # <<>> \/ q.having # <<>> \/ q.cursor \/ q.limit # "in"
                          \/ \E c \in ToSet(q.columns) :
                                c.expr.kind # "field" \/ c.alias # "" \/ c.expr.qual # ""),
          NamesQuery(SingleNames(rule), q, 0, {})>>)

\* ClassifyTugQL: the refusals of both walks and of the money rules, the kind
\* of the profile, and the reads it lists.
ClassifyTugQL(q) ==
    LET walk == ProfileQuery(q, 0, 0)
        reads == ReadsOf(walk)
        money == /\ q.money
                 /\ \/ HasSubquery(q) \/ ~HasAggregation(q) \/ ~MoneyJoinShape(q.from)
        single == /\ ~HasSubquery(q) /\ ~q.money
                  /\ Len(reads) = 1 /\ reads[1].db = ""
                  /\ Why(ValidateTugQL(q, QuotedNames)) = {}
    IN [why |-> Why(All(<<walk, Refuse("sources", Len(reads) > MaxSources),
                          NamesQuery(RelationalNames(QuotedNames), q, 0, {}),
                          Refuse("money", money)>>)),
        kind |-> IF single THEN "single" ELSE "relational",
        reads |-> Listed(reads),
        hasSubquery |-> HasSubquery(q) /\ ~single]

----------------------------------------------------------------------------
(* The walk of the join executor.  A subquery is a level and so is every    *)
(* joined source; conditions and expressions are counted as the classifier  *)
(* counts them.                                                             *)

RECURSIVE InspectQuery(_, _, _), InspectFrom(_, _, _), InspectNode(_, _, _)

InspectSource(s, depth, nest) ==
    IF s.kind = "derived"
      THEN Both(Refuse("name", s.alias \notin Identifiers), InspectQuery(s.query[1], depth + 1, nest))
      ELSE All(<<Refuse("name", s.alias \notin Identifiers \cup {""}), Reads(s),
                 Each(LAMBDA n : InspectNode(n, depth, nest), s.scan)>>)

InspectFrom(f, depth, nest) ==
    All(<<Refuse("depth", depth > MaxWalkDepth), InspectSource(f.base, depth, nest),
          Each(LAMBDA j : Both(InspectFrom(j.from, depth + 1, nest),
                               Each(LAMBDA n : InspectNode(n, depth, nest), j.on)), f.joins)>>)

InspectNode(n, depth, nest) ==
    All(<<Refuse("nesting", nest + 1 > MaxNesting), Refuse("param", n.kind = "param"),
          Refuse("field", n.kind = "field" /\ n.name \notin PlainNames),
          Each(LAMBDA k : InspectNode(k, depth, nest + 1), n.kids),
          Each(LAMBDA q : InspectQuery(q, depth + 1, nest + 1), n.query)>>)

OutputName(c) == IF c.alias # "" THEN c.alias ELSE IF c.expr.kind = "field" THEN c.expr.name ELSE ""

InspectQuery(q, depth, nest) ==
    LET node(n) == InspectNode(n, depth, nest)
        twice == \E i, j \in DOMAIN q.columns :
                    /\ i < j /\ OutputName(q.columns[i]) = OutputName(q.columns[j])
                    /\ OutputName(q.columns[i]) # ""
    IN All(<<Refuse("depth", depth > MaxWalkDepth), InspectFrom(q.from, depth, nest),
             Each(node, q.where), Each(node, q.groupBy), Each(node, q.having), Each(node, q.orderBy),
             Each(LAMBDA c : Both(Refuse("name", c.alias \notin Identifiers \cup {""}), node(c.expr)),
                  q.columns),
             Refuse("duplicate", twice)>>)

\* checkNames: a qualifier may name any source of the document.
RECURSIVE AllSources(_), AllQualifiers(_), NodeTrees(_), NodeQualifiers(_)
ClauseNodes(q) ==
    ToSet(q.where \o q.groupBy \o q.having \o q.orderBy)
    \cup {c.expr : c \in ToSet(q.columns)}
    \cup UNION {ToSet(j.on) : j \in ToSet(FlatJoins(q.from))}
    \cup UNION {ToSet(s.scan) : s \in ToSet(FlatSources(q.from))}
NodeTrees(n) == UNION ({AllSources(q) : q \in ToSet(n.query)} \cup {NodeTrees(k) : k \in ToSet(n.kids)})
NodeQualifiers(n) == (IF n.kind = "field" THEN {n.qual} \ {""} ELSE {})
    \cup UNION ({AllQualifiers(q) : q \in ToSet(n.query)} \cup {NodeQualifiers(k) : k \in ToSet(n.kids)})
AllSources(q) == UNION ({ScopeNames(s) : s \in ToSet(FlatSources(q.from))}
    \cup {UNION {AllSources(d) : d \in ToSet(s.query)} : s \in ToSet(FlatSources(q.from))}
    \cup {NodeTrees(n) : n \in ClauseNodes(q)})
AllQualifiers(q) == UNION ({NodeQualifiers(n) : n \in ClauseNodes(q)}
    \cup {UNION {AllQualifiers(d) : d \in ToSet(s.query)} : s \in ToSet(FlatSources(q.from))})
CheckNames(q) == Refuse("name", ~(AllQualifiers(q) \subseteq AllSources(q) \cup Identifiers))

Inspect(q) ==
    LET walk == Both(InspectQuery(q, 0, 0), CheckNames(q))
    IN [why |-> Why(walk), reads |-> Listed(ReadsOf(walk)),
        hasSubquery |-> HasSubquery(q)]

\* checkProfile: the same reads as many times over, and the same answer about
\* subqueries.
CheckProfile(document, profile) ==
    LET times(s, r) == Cardinality({i \in DOMAIN s : s[i] = r})
    IN /\ profile.hasSubquery = document.hasSubquery
       /\ \A r \in ToSet(document.reads) \cup ToSet(profile.reads) :
             times(document.reads, r) = times(profile.reads, r)

----------------------------------------------------------------------------
(* The source guard: the name walk's counting, with one level more for each *)
(* joined source.                                                           *)

RECURSIVE GuardQuery(_, _), GuardFrom(_, _), GuardNode(_, _)

GuardSource(s, depth) ==
    IF s.kind = "derived" THEN GuardQuery(s.query[1], depth + 1)
    ELSE Both(Reads(s), Each(LAMBDA n : GuardNode(n, depth + 1), s.scan))

\* Fault: a joined source is on the level of the first one.
GuardFromFlat(f, depth) ==
    All(<<Refuse("depth", depth > MaxTreeDepth), GuardSource(f.base, depth),
          Each(LAMBDA j : Both(GuardFrom(j.from, depth),
                               Each(LAMBDA n : GuardNode(n, depth), j.on)), f.joins)>>)
GuardFrom(f, depth) ==
    All(<<Refuse("depth", depth > MaxTreeDepth), GuardSource(f.base, depth),
          Each(LAMBDA j : Both(GuardFrom(j.from, depth + 1),
                               Each(LAMBDA n : GuardNode(n, depth + 1), j.on)), f.joins)>>)

GuardNode(n, depth) ==
    All(<<Refuse("depth", depth > MaxTreeDepth),
          Each(LAMBDA k : GuardNode(k, depth + 1), n.kids),
          Each(LAMBDA q : GuardQuery(q, depth + 1), n.query)>>)

GuardQuery(q, depth) ==
    LET node(n) == GuardNode(n, depth)
    IN All(<<GuardFrom(q.from, depth), Each(node, q.where), Each(LAMBDA c : node(c.expr), q.columns),
             Each(node, q.groupBy), Each(node, q.having), Each(node, q.orderBy)>>)

\* checkSourceCollection on every read, for a mount whose id is self.
CheckSourceCollection(s, self) ==
    Refuse("undeclared", s.db \notin {"", self} \/ s.name \notin DOMAIN Columns)
GuardSources(q, self) ==
    LET walk == GuardQuery(q, 0)
    IN Both(walk, Each(LAMBDA s : CheckSourceCollection(s, self), ReadsOf(walk)))

\* QueryCollections: the collections named plainly, once each.
QueryCollections(q) ==
    LET walk == GuardQuery(q, 0)
    IN IF Why(walk) = {} /\ \A s \in ToSet(ReadsOf(walk)) : s.db = ""
         THEN {s.name : s \in ToSet(ReadsOf(walk))} ELSE {}

SingleSourceRead(q) ==
    /\ q.from.joins = <<>> /\ ~HasSubquery(q)
    /\ q.from.base.kind = "collection" /\ q.from.base.scan = <<>>

----------------------------------------------------------------------------
(* The field guard of a strict mount on a database server.  scope lists the *)
(* sources a field can name, the innermost last.                            *)

\* sourceOf: what a qualifier names, and the columns when they are known.
SourceOf(s) ==
    [identity |-> Identity(s), known |-> s.kind = "collection",
     columns |-> IF s.kind = "collection" /\ s.name \in DOMAIN Columns
                   THEN {Fold(c) : c \in Columns[s.name] \cup {"id"}} ELSE {}]

\* fieldScope.find: the innermost source of that identity.
Find(scope, identity) ==
    LET at == {i \in DOMAIN scope : scope[i].identity = identity}
    IN IF at = {} THEN <<>> ELSE <<scope[CHOOSE i \in at : \A j \in at : j <= i]>>

\* level: [scope, single, aliases], with reads TRUE where an alias is a column.
FieldCheck(n, level, reads) ==
    LET found == IF n.qual # "" THEN Find(level.scope, n.qual)
                 ELSE IF reads /\ n.name \in level.aliases THEN <<>> ELSE level.single
    IN Both(Refuse("qualifier", n.qual # "" /\ found = <<>>),
            Refuse("field", \E s \in ToSet(found) : s.known /\ Fold(n.name) \notin s.columns))

RECURSIVE FieldsQuery(_, _, _), FieldsNode(_, _, _, _)

FieldsNode(n, level, reads, depth) ==
    All(<<Refuse("depth", depth > MaxTreeDepth),
          IF n.kind = "field" THEN FieldCheck(n, level, reads) ELSE <<>>,
          Each(LAMBDA k : FieldsNode(k, level, reads /\ n.kind # "aggregate", depth + 1), n.kids),
          Each(LAMBDA q : FieldsQuery(q, level.scope, depth + 1), n.query)>>)

FieldsQuery(q, outer, depth) ==
    LET sources == FlatSources(q.from)
        own == [i \in DOMAIN sources |-> SourceOf(sources[i])]
        level == [scope |-> outer \o own,
                  single |-> IF Len(own) = 1 THEN own ELSE <<>>,
                  aliases |-> {c.alias : c \in ToSet(q.columns)} \ {""}]
        node(n) == FieldsNode(n, level, FALSE, depth)
        after(n) == FieldsNode(n, level, TRUE, depth)
    IN All(<<Refuse("depth", depth > MaxTreeDepth), FlattenFrom(q.from, depth),
             Each(LAMBDA s : Both(Each(LAMBDA n : FieldsNode(n, level, FALSE, depth + 1), s.scan),
                                  Each(LAMBDA d : FieldsQuery(d, level.scope, depth + 1), s.query)), sources),
             Each(LAMBDA j : Each(LAMBDA n : FieldsNode(n, level, FALSE, depth + 1), j.on),
                  FlatJoins(q.from)),
             Each(LAMBDA c : node(c.expr), q.columns), Each(node, q.where), Each(node, q.groupBy),
             Each(after, q.having), Each(after, q.orderBy)>>)

----------------------------------------------------------------------------
(* withoutDatabaseNames: the document a server engine is handed. *)

RECURSIVE UnnamedFrom(_)
UnnamedSource(s) == IF s.kind = "collection" THEN [s EXCEPT !.db = ""] ELSE s
\* Fault: only a join of one source is rebuilt.
UnnamedJoinFlat(j) == IF j.tree THEN j ELSE [j EXCEPT !.from = UnnamedFrom(j.from)]
UnnamedJoin(j) == [j EXCEPT !.from = UnnamedFrom(j.from)]
UnnamedFrom(f) == From(UnnamedSource(f.base), Mapped(UnnamedJoin, f.joins))
WithoutDatabaseNames(q) ==
    IF q.from.joins = <<>> THEN q ELSE [q EXCEPT !.from = UnnamedFrom(q.from)]
=============================================================================
