---------------------------- MODULE MCQueryService ----------------------------
(***************************************************************************)
(* An instance of QueryService: one request whose sources may fail, of     *)
(* every shape, beside one that contends for its slots and its databases.  *)
(***************************************************************************)
EXTENDS QueryService

\* A SQLite mount, a native PostgreSQL mount, an HTTP mount with a provider profile that
\* restricts its requests and one whose profile does not, a mount with access policies whose
\* rights are broken, a PostgreSQL mount that is neither native nor in the preview of queries,
\* and an immutable mount with a read profile.
MCDB == {"s", "p", "v", "w", "l", "d", "i"}
MCEngine == [b \in MCDB |-> CASE b \in {"s", "l", "i"} -> "sqlite" [] b \in {"p", "d"} -> "postgres"
                              [] OTHER -> "http"]
MCCapacity == [g \in Gated |-> 1]
MCHolds == [c \in {"none", "one", "two", "many"} |->
              CASE c = "none" -> 0 [] c = "one" -> 1 [] c = "two" -> 2 [] OTHER -> 3]
MCDeclared == MCDB \X {"none", "one", "two", "many"}
MCTooLong == {<<"d", "long">>}
MCPlanned == {"v", "w"} \X {"none", "one"}

Source(b, c) == [db |-> b, coll |-> c, scan |-> FALSE]
Plain(b, c) ==
  [endpoint |-> b, sources |-> <<Source(NoDB, c)>>, plain |-> TRUE, subquery |-> FALSE,
   null |-> FALSE, money |-> FALSE, aggregates |-> FALSE, limited |-> FALSE, denied |-> {},
   json |-> FALSE, paging |-> FALSE, errorStream |-> FALSE, get |-> TRUE,
   ordered |-> FALSE, shaped |-> TRUE, badId |-> FALSE]
Join(b, b1, c1, b2, c2) ==
  [Plain(b, c1) EXCEPT !.sources = <<Source(b1, c1), Source(b2, c2)>>, !.plain = FALSE]
Cross(b1, c1, b2, c2) == Join(NoDB, b1, c1, b2, c2)
Inner(b, c1, c2) == Join(b, NoDB, c1, NoDB, c2)
Grouped(b, c) == [Plain(b, c) EXCEPT !.plain = FALSE, !.subquery = TRUE]
WithTerminal(q) == [q EXCEPT !.errorStream = TRUE]

\* Queries that read.
MCReading == <<
  Plain("s", "two"), Plain("p", "two"), Plain("s", "many"), Plain("s", "none"),
  WithTerminal(Plain("v", "one")), Plain("w", "none"), WithTerminal(Plain("l", "one")),
  WithTerminal(Cross("s", "one", "p", "one")), Cross("p", "none", "s", "one"),
  Inner("w", "one", "none"),
  Inner("s", "two", "none"), [Inner("p", "one", "two") EXCEPT !.aggregates = TRUE],
  WithTerminal(Grouped("p", "many")), [Grouped("p", "two") EXCEPT !.limited = TRUE] >>

\* Queries that are refused before they read.
MCRefused ==
  LET single == Plain("s", "one")
      join == Cross("s", "one", "p", "one")
  IN  << [single EXCEPT !.denied = {<<"s", "one">>}], [single EXCEPT !.paging = TRUE],
         Plain("s", "gone"), Plain("l", "gone"), [Plain("p", "one") EXCEPT !.json = TRUE],
         [Plain("v", "one") EXCEPT !.paging = TRUE], [Plain("v", "one") EXCEPT !.shaped = FALSE],
         [Plain("v", "one") EXCEPT !.badId = TRUE], Plain("w", "two"), Inner("v", "one", "one"),
         [Plain("w", "one") EXCEPT !.paging = TRUE], Plain("d", "long"), Plain("d", "one"),
         [join EXCEPT !.denied = {<<"p", "one">>}], [join EXCEPT !.paging = TRUE],
         [join EXCEPT !.endpoint = "s"], Cross("s", "one", NoDB, "one"),
         Cross("s", "one", "p", "gone"), Cross("d", "long", "p", "gone"),
         Cross("s", "one", "l", "one"),
         [Cross("s", "one", "l", "one") EXCEPT !.denied = {<<"l", "one">>}],
         Cross("s", "one", "v", "one"), Cross("s", "one", "d", "one"),
         Plain("i", "one"), [Plain("i", "one") EXCEPT !.paging = TRUE],
         [Plain("i", "one") EXCEPT !.ordered = TRUE], Plain("i", "gone"),
         [Plain("i", "one") EXCEPT !.json = TRUE], Cross("s", "one", "i", "one") >>

\* The contender, which never fails: it takes a slot of the in-memory pool and a lease.
MCContending == << [Grouped("p", "none") EXCEPT !.money = TRUE] >>

MCQuery == MCReading \o MCRefused \o MCContending
MCContenders == {Len(MCReading \o MCRefused) + i : i \in DOMAIN MCContending}
MCAsked(r) == IF r = "r1" THEN DOMAIN MCQuery \ MCContenders ELSE MCContenders
===============================================================================
