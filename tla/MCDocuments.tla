----------------------------- MODULE MCDocuments -----------------------------
(***************************************************************************)
(* Documents for TLC: one document per feature the walks tell apart, to be *)
(* wrapped twice, a plain one to be wrapped past every bound, and the      *)
(* documents of one level over every choice of sources, columns and names. *)
(* Beside them write batches, of one or two operations on one record: a    *)
(* behaviour is about documents or about batches, and leaves the state of  *)
(* the other part at rest.                                                 *)
(***************************************************************************)
EXTENDS Documents, WriteBatch

MCColumns == [n \in {"c", "d", "u", "order-items"} |->
                CASE n = "c" -> {"f", "g"} [] n = "d" -> {"g", "h"} [] OTHER -> {"f"}]
MCFold(name) == IF name = "F" THEN "f" ELSE name

One(source) == From(source, <<>>)
C(alias) == Collection("", "c", alias, <<>>)
Simple == Query(One(C("")), <<>>, <<Col("", Field("", "f"))>>)
Filter(qual, name) == [Simple EXCEPT !.where = <<Holds("equal", <<Field(qual, name), Holds("const", <<>>)>>)>>]
Sum(name) == Holds("aggregate", <<Field("", name)>>)
Plus(name) == Holds("binary", <<Field("", name), Holds("const", <<>>)>>)

\* What a document may carry that some walk looks at.
Features ==
    {Filter("", "f"), Filter("", "zip code"), Filter("", ";"), Filter("", "F"), Filter("", "nope"),
     Filter("c", "f"), Filter("z", "f"), Filter("order-items", "f"),
     [Filter("order-items", "f") EXCEPT !.from = One(Collection("", "order-items", "", <<>>))],
     [Simple EXCEPT !.where = <<Holds("equal", <<Field("", "f"), Param>>)>>],
     [Simple EXCEPT !.where = <<Holds("null", <<Field("", "f")>>)>>],
     [Simple EXCEPT !.where = <<Holds("in", <<Field("", "f"), Holds("const", <<>>)>>)>>],
     [Simple EXCEPT !.from = One(C("x"))], [Simple EXCEPT !.from = One(C("zip code"))],
     [Simple EXCEPT !.from = One(Collection("db", "c", "", <<>>))],
     [Simple EXCEPT !.from = From(Collection("db", "c", "", <<>>),
                                  <<Flat(Collection("db", "d", "", <<>>), <<>>)>>)],
     [Simple EXCEPT !.from = One(Collection("", "c", "", <<Field("", "f")>>))],
     [Simple EXCEPT !.columns = <<Col("", Field("", "f")), Col("f", Field("", "g"))>>],
     [Simple EXCEPT !.columns = <<Col("s", Sum("f"))>>, !.having = <<Holds("equal", <<Field("", "s")>>)>>],
     [Simple EXCEPT !.limit = "over"], [Simple EXCEPT !.limit = "negative"],
     [Simple EXCEPT !.cursor = TRUE],
     [Simple EXCEPT !.money = TRUE, !.columns = <<Col("s", Sum("f"))>>,
                    !.from = From(C(""), <<Flat(Collection("", "d", "", <<>>),
                                 <<Holds("equal", <<Field("c", "f"), Field("d", "g")>>)>>)>>)]}

\* The documents of one level: sources, a select list and one more clause.
Relations ==
    {One(Collection(db, n, "", <<>>)) : db \in {"", "db"}, n \in {"c", "u"}}
    \cup {From(Collection(db, "c", "", <<>>), <<Flat(Collection(db, n, "", <<>>), <<>>)>>)
            : db \in {"", "db"}, n \in {"d", "u"}}
    \cup {From(C(""), <<Flat(Derived([Simple EXCEPT !.columns = <<Col("h", Field("", "f"))>>], "x"), <<>>)>>)}

SelectItems ==
    {Col("", Field("", "f")), Col("", Field("", "h")), Col("g", Field("", "f")), Col("f", Field("", "g")),
     Col("k", Plus("f")), Col("g", Plus("f")), Col("g", Sum("f")), Col("f", Field("c", "g")),
     Col("k", Field("", KeyField))}
MCSelectLists == {<<c>> : c \in SelectItems} \cup {<<c, d>> : c, d \in SelectItems}

Named == {Field("", n) : n \in {"f", "g", "h", "k"}}
MCClauses(q) ==
    {q} \cup {[q EXCEPT !.where = <<Holds("equal", <<n>>)>>] : n \in Named}
        \cup {[q EXCEPT !.groupBy = <<n>>] : n \in Named}
        \cup {[q EXCEPT !.having = <<Holds("equal", <<n>>)>>] : n \in Named \cup {Sum("g")}}
        \cup {[q EXCEPT !.orderBy = <<n>>]
                : n \in Named \cup {Plus("g"), Plus("k"), Field("c", "h"), Field("", KeyField)}}
        \cup (IF q.from.joins = <<>> THEN {}
              ELSE {[q EXCEPT !.from.joins[1].on = <<Holds("equal", <<n>>)>>] : n \in Named})

Leaf(q, n, next) == [doc |-> q, levels |-> n, part |-> next]
MCLeaves ==
    {Leaf(q, 2, "levels") : q \in Features} \cup {Leaf(Simple, 3, "levels")}
    \cup {Leaf([Simple EXCEPT !.from = f], 0, "columns") : f \in Relations}
-----------------------------------------------------------------------------
\* The manifest has one collection, quoted and not: on SQLite they are one table.
MCLogical(k) == IF k = "'c'" THEN "c" ELSE k
MCSchemaOf == [k \in {"'c'", "c"} |-> [n |-> [type |-> "integer", required |-> TRUE],
                                       o |-> [type |-> "object", required |-> FALSE],
                                       b |-> [type |-> "boolean", required |-> FALSE]]]
MCLower(name) == CASE name = "N" -> "n" [] name = "B" -> "b" [] name = "ID" -> "id" [] OTHER -> name

Op(kind, name, data, updates) ==
    [op |-> kind, name |-> name, nested |-> FALSE, key |-> "k", data |-> data, updates |-> updates]
Sets(data) == Op("set", "c", data, <<>>)
Updates(name, path, kind, value) ==
    Op("update", "c", NoFields, <<[name |-> name, path |-> path, kind |-> kind, value |-> value]>>)

\* Operations that some guard, simulation or validation may let through, in the
\* places of a batch where they tell its steps apart.
First ==
    {Sets("n" :> Num(1)), Sets([n |-> Num(0), N |-> Num(2), B |-> Num(2)])}
Second ==
    {Sets(NoFields), Op("insert", "'c'", "n" :> Num(2), <<>>), Op("delete", "c", NoFields, <<>>),
     Updates(<<"n">>, <<>>, "increment", Num(-3)), Updates(<<"n">>, <<>>, "increment", Num(2)),
     Updates(<<"n">>, <<>>, "delete", Null)}
Alone ==
    {Sets("ID" :> Text), Op("insert", "u", "x" :> Text, <<>>), Op("set", "u", "a b" :> Text, <<>>),
     [Op("delete", "c", NoFields, <<>>) EXCEPT !.nested = TRUE, !.key = "p/k"],
     Op("merge", "c", "n" :> Num(2), <<>>), Op("update", "c", NoFields, <<>>),
     Updates(<<>>, <<"o", "n">>, "increment", Num(2)), Updates(<<>>, <<"o", "n">>, "delete", Null),
     Updates(<<>>, <<"B", "n">>, "set", Num(0)), Updates(<<"o">>, <<>>, "timestamp", Null),
     Updates(<<"n">>, <<>>, "increment", Text), Updates(<<>>, <<"o", "a b">>, "delete", Null),
     Updates(<<"n">>, <<"o">>, "set", Text), Updates(<<>>, <<>>, "set", Text),
     Updates(<<"x">>, <<>>, "scale", Text), Updates(<<"id">>, <<>>, "delete", Null),
     Updates(<<"b">>, <<>>, "set", Bool), Updates(<<>>, <<"o", " ">>, "set", Text)}
MCBatches ==
    {<<o>> : o \in First \cup Second \cup Alone} \cup {<<o, p>> : o \in First \cup Second, p \in Second}

MCInit ==
    \/ Init /\ storage = "none" /\ mode = "none" /\ rows = NoFields /\ staged = NoFields
       /\ drifted = FALSE /\ whole = TRUE
    \/ BatchInit /\ doc = Simple /\ left = 0 /\ part = "written"
MCNext ==
    \/ Next /\ UNCHANGED batchVars
    \/ storage # "none" /\ BatchNext /\ UNCHANGED vars
MCSpec == MCInit /\ [][MCNext]_<<vars, batchVars>>
=============================================================================
