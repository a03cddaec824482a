------------------------------ MODULE MountFiles ------------------------------
(***************************************************************************)
(* How the manifests of a directory become open databases:                 *)
(* FileWithOptions, Dir and DirReport of pkg/mount/mount.go, All of        *)
(* pkg/mount/all.go and the part of core's open that loads the inferred    *)
(* catalogue.                                                              *)
(*                                                                         *)
(* A path is its place in the order of names.  A manifest is told by the   *)
(* id it declares and by who wrote it, which is also where its storage is. *)
(* An open database is an instance, with the catalogue it has in memory.   *)
(***************************************************************************)
EXTENDS Catalogue, FiniteSetsExt

CONSTANTS
  NPaths,      \* manifest paths
  Id,          \* database ids
  NInstances,  \* databases open at once
  Optional,    \* paths whose spec is optional, for All
  Worker,      \* the goroutines of All
  MaxEvents    \* failures, and other things that come from outside

Path == 1 .. NPaths
Instance == 1 .. NInstances
Manifest == [id : Id, by : {"operator", "create"}]
NoFile == [by |-> "none"]
Partial == [by |-> "partial"]

ASSUME MountAssumption ==
  /\ NPaths \in Nat \ {0} /\ NInstances \in Nat \ {0} /\ MaxEvents \in Nat
  /\ Optional \subseteq Path
  /\ Worker # {}

VARIABLES
  files,     \* what each path holds: NoFile, Partial or a manifest
  saved,     \* the catalogue file of each manifest's storage
  inst,      \* the open databases: the manifest, and the catalogue in memory
  events,    \* how many of them there were
  how,       \* the mounting under way (dir, report or all), or its end
  todo,      \* paths not yet looked at
  worker,    \* each worker of All: the path it mounts and where it is, or idle
  required,  \* All: a required spec has failed
  opened,    \* the instance of each path, 0 when there is none
  health     \* what became of each path

diskVars == <<files, saved>>
mountVars == <<how, todo, worker, required, opened, health>>

Idle == [path |-> 0, at |-> "idle"]
Shut == [of |-> NoFile, cat |-> Empty]
Opened(i) == inst[i] # Shut
IdOf(i) == inst[i].of.id
Listed == {p \in Path : files[p] # NoFile}

\* The databases of set s are closed.
CloseAll(s) == inst' = [i \in Instance |-> IF i \in s THEN Shut ELSE inst[i]]

MountInit ==
  /\ how = "none" /\ todo = {} /\ required = FALSE
  /\ worker = [w \in Worker |-> Idle]
  /\ opened = [p \in Path |-> 0]
  /\ health = [p \in Path |-> "none"]

\* The directory is read and the specs are made of it.
StartMounting(mode, paths) ==
  /\ how' = mode /\ todo' = paths /\ required' = FALSE
  /\ worker' = [w \in Worker |-> Idle]
  /\ opened' = [p \in Path |-> 0]
  /\ health' = [p \in Path |-> "none"]

\* Something comes from outside: a failure of the file system, of an engine or
\* of a random source, or a call.
Event == events < MaxEvents /\ events' = events + 1

\* Fault: a catalogue that is there is not read.
LoadNothing(m) == Empty

\* inferred.Load; a catalogue file is replaced whole, so it is never corrupt.
Load(m) == saved[m]

\* FileWithOptions opens the database of the manifest at path p as instance i.
OpenFile(p, i) ==
  /\ files[p] \in Manifest
  /\ {n \in Instance : ~ Opened(n)} # {} /\ i = Min({n \in Instance : ~ Opened(n)})
  /\ inst' = [inst EXCEPT ![i] = [of |-> files[p], cat |-> Load(files[p])]]

\* FileWithOptions fails, with nothing left open: the manifest does not parse,
\* or opening what it names fails.
OpenFails(p) ==
  IF files[p] \in Manifest THEN Event ELSE UNCHANGED events
-----------------------------------------------------------------------------
(* Dir and DirReport: one path after the other. *)

\* The paths mounted so far hold a database of this id already.
Taken(id) == \E q \in Path : opened[q] # 0 /\ IdOf(opened[q]) = id

\* Fault: the scan stops at an error that it tolerates.
ScanErrorStops(p, why) ==
  /\ health' = [health EXCEPT ![p] = why]
  /\ todo' = {}
  /\ IF how = "dir"
     THEN /\ how' = "failed"
          /\ opened' = [q \in Path |-> 0]
          /\ CloseAll({opened[q] : q \in Path})
     ELSE UNCHANGED <<how, opened, inst>>

\* The error of a path: Dir closes what it has mounted and fails.
ScanError(p, why) ==
  /\ todo' = todo \ {p}
  /\ health' = [health EXCEPT ![p] = why]
  /\ IF how = "dir"
     THEN /\ how' = "failed"
          /\ opened' = [q \in Path |-> 0]
          /\ CloseAll({opened[q] : q \in Path})
     ELSE UNCHANGED <<how, opened, inst>>

\* mountUnique mounts the next path.
ScanMounts(p) ==
  /\ how \in {"dir", "report"} /\ todo # {} /\ p = Min(todo)
  /\ files[p] \in Manifest /\ ~ Taken(files[p].id)
  /\ todo' = todo \ {p}
  /\ \E i \in Instance :
       /\ OpenFile(p, i)
       /\ opened' = [opened EXCEPT ![p] = i]
  /\ health' = [health EXCEPT ![p] = "mounted"]
  /\ UNCHANGED <<events, how, worker, required>>

\* mountUnique mounts the next path and closes it again, for its id is taken.
ScanDuplicate(p) ==
  /\ how \in {"dir", "report"} /\ todo # {} /\ p = Min(todo)
  /\ files[p] \in Manifest /\ Taken(files[p].id)
  /\ ScanError(p, "duplicate")
  /\ UNCHANGED <<events, worker, required>>

ScanFails(p) ==
  /\ how \in {"dir", "report"} /\ todo # {} /\ p = Min(todo)
  /\ OpenFails(p)
  /\ ScanError(p, "failed")
  /\ UNCHANGED <<worker, required>>

ScanEnds ==
  /\ how \in {"dir", "report"} /\ todo = {}
  /\ how' = "mounted"
  /\ UNCHANGED <<inst, events, todo, worker, required, opened, health>>
-----------------------------------------------------------------------------
(* All: the workers take the paths in order. *)

\* A worker takes the next path; it skips it when a required spec has failed.
\* The code receives the path before it reads the flag under the mutex: a
\* failure between the two is one that this step comes after, since nothing but
\* the worker itself sees which path it holds.
Take(w) ==
  /\ how = "all" /\ worker[w] = Idle /\ todo # {}
  /\ LET p == Min(todo) IN
       /\ todo' = todo \ {p}
       /\ IF required
          THEN health' = [health EXCEPT ![p] = "skipped"] /\ UNCHANGED worker
          ELSE worker' = [worker EXCEPT ![w] = [path |-> p, at |-> "mounting"]] /\ UNCHANGED health
  /\ UNCHANGED <<inst, events, how, required, opened>>

MountsOne(w) ==
  /\ how = "all" /\ worker[w].at = "mounting"
  /\ LET p == worker[w].path IN
       /\ \E i \in Instance :
            /\ OpenFile(p, i)
            /\ opened' = [opened EXCEPT ![p] = i]
       /\ health' = [health EXCEPT ![p] = "opened"]
  /\ worker' = [worker EXCEPT ![w] = Idle]
  /\ UNCHANGED <<events, how, todo, required>>

\* Fault: the failure of an optional spec counts as that of a required one.
AnyFails(w) ==
  /\ how = "all" /\ worker[w].at = "mounting"
  /\ LET p == worker[w].path IN
       /\ OpenFails(p)
       /\ health' = [health EXCEPT ![p] = "failed"]
       /\ worker' = [worker EXCEPT ![w] = [path |-> p, at |-> "failed"]]
  /\ UNCHANGED <<inst, how, todo, required, opened>>

\* mountOne returns an error, or panics.
OneFails(w) ==
  /\ how = "all" /\ worker[w].at = "mounting"
  /\ LET p == worker[w].path IN
       /\ OpenFails(p)
       /\ health' = [health EXCEPT ![p] = "failed"]
       /\ worker' = [worker EXCEPT ![w] = IF p \in Optional THEN Idle
                                          ELSE [path |-> p, at |-> "failed"]]
  /\ UNCHANGED <<inst, how, todo, required, opened>>

\* The worker of a required spec records its failure, under the mutex.
Require(w) ==
  /\ how = "all" /\ worker[w].at = "failed"
  /\ required' = TRUE
  /\ worker' = [worker EXCEPT ![w] = Idle]
  /\ UNCHANGED <<inst, events, how, todo, opened, health>>

\* A path whose database has the id of an earlier one.
Duplicate(p) ==
  opened[p] # 0 /\ \E q \in 1 .. p - 1 : opened[q] # 0 /\ IdOf(opened[q]) = IdOf(opened[p])

\* wg.Wait returns: duplicates are closed, and everything is when a required
\* spec has failed.
AllEnds ==
  /\ how = "all" /\ todo = {} /\ \A w \in Worker : worker[w] = Idle
  /\ LET dups == {p \in Path : Duplicate(p)}
         failure == \E p \in Listed \ Optional : health[p] = "failed" \/ p \in dups
         lost == IF failure THEN Path ELSE dups
     IN  /\ how' = IF failure THEN "failed" ELSE "mounted"
         /\ health' = [p \in Path |-> IF p \in dups THEN "duplicate"
                                       ELSE IF health[p] # "opened" THEN health[p]
                                       ELSE IF failure THEN "closed" ELSE "mounted"]
         /\ opened' = [p \in Path |-> IF p \in lost THEN 0 ELSE opened[p]]
         /\ CloseAll({opened[p] : p \in lost})
  /\ UNCHANGED <<events, todo, worker, required>>

MountStep ==
  \/ \E p \in Path : ScanMounts(p) \/ ScanDuplicate(p) \/ ScanFails(p)
  \/ ScanEnds
  \/ \E w \in Worker : Take(w) \/ MountsOne(w) \/ OneFails(w) \/ Require(w)
  \/ AllEnds

\* What All and Dir promise when they end.  Without an error no path was skipped
\* and each id is mounted once; with one, nothing is left open and some path
\* failed; and a path is skipped only once a required one has failed, whatever
\* the workers were doing meanwhile.
MountingIsWhole ==
  /\ how = "mounted" =>
       /\ \A p \in Listed : health[p] # "skipped"
       /\ \A p, q \in Path : opened[p] # 0 /\ opened[q] # 0 /\ IdOf(opened[p]) = IdOf(opened[q]) => p = q
  /\ how = "failed" =>
       /\ \A i \in Instance : ~ Opened(i)
       /\ \E p \in Listed : health[p] \in {"failed", "duplicate"}
  /\ (\E p \in Path : health[p] = "skipped") =>
       \E p \in Path \ Optional : health[p] = "failed"
===============================================================================
