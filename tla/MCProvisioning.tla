---------------------------- MODULE MCProvisioning ----------------------------
(***************************************************************************)
(* An instance of Provisioning: two ids with a path each, and a third path *)
(* at which an operator's manifest may declare one of them.                *)
(***************************************************************************)
EXTENDS Provisioning

MCPathOf == [d \in {"a", "b"} |-> IF d = "a" THEN 2 ELSE 3]

Operators(d) == [id |-> d, by |-> "operator"]
Holding(one, two, three) == <<one, two, three>>

\* No manifest; one that declares the id of another's path; one at the path of
\* the id it declares, beside one that does not parse.
MCInitialFiles ==
  {Holding(NoFile, NoFile, NoFile), Holding(Operators("a"), NoFile, NoFile),
   Holding(NoFile, Operators("a"), Operators("b")),
   Holding(Partial, NoFile, Operators("a"))}

Entry(p, n, t) == [path |-> p, depth |-> n, type |-> t]

\* An object with a field that lies at the depth where the walk stops, and a
\* record that names one path twice.
MCEntries ==
  [doc \in {"nested", "twice"} |->
     IF doc = "nested"
     THEN {Entry("x", 0, "object"), Entry("x.y", 1, "number"), Entry("x.y.z", 2, "string")}
     ELSE {Entry("x", 0, "object"), Entry("x.y", 1, "null"), Entry("x.y", 0, "string")}]
===============================================================================
