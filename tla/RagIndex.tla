------------------------------- MODULE RagIndex -------------------------------
(* The retrieval of examples for the conversation model: a script embeds the *)
(* examples of a package into two files, the vectors and what they are of;   *)
(* the service loads them, once it finds them whole and of its own package,  *)
(* and otherwise ranks by words.                                             *)
EXTENDS Integers

CONSTANTS
  Package,    \* versions of the training package
  MaxBuilds,  \* bound: runs of the script
  MaxStarts,  \* bound: restarts of the service
  MaxLoads    \* bound: times the service looks for the files

(* A torn file has lost bytes; the packages have as many examples as another.*)
None == "none"
Torn == "torn"

VARIABLES
  meta, vectors,  \* on disk: the package each file is of
  build,          \* the script: phase, the package it read
  mine,           \* the package of the service
  load,           \* a load of the index: phase, the meta it read, the vectors there were then
  index,          \* what the service keeps: status, the vectors, whether they may be mixed
  old,            \* five minutes have passed since the last look
  last,           \* the last answer: how its examples were found, with which vectors
  builds, starts, loads
vars == <<meta, vectors, build, mine, load, index, old, last, builds, starts, loads>>
disk == <<meta, vectors, build, builds>>
service == <<mine, load, index, old, last, starts, loads>>

Resting == [phase |-> "idle", of |-> None]
Unloaded == [phase |-> "idle", meta |-> None, saw |-> None]
NoIndex == [status |-> "never", vectors |-> None, mixed |-> FALSE]
Init ==
  /\ meta = None /\ vectors = None /\ build = Resting /\ mine \in Package
  /\ load = Unloaded /\ index = NoIndex /\ old = FALSE /\ last = <<"none", None>>
  /\ builds = 0 /\ starts = 0 /\ loads = 0

(* ------------------------------ the script ------------------------------ *)
Starts == /\ build.phase = "idle" /\ builds < MaxBuilds /\ builds' = builds + 1
          /\ \E p \in Package : build' = [phase |-> "embed", of |-> p]
          /\ UNCHANGED <<meta, vectors, service>>
Embeds == build.phase = "embed" /\ build' = [build EXCEPT !.phase = "vectors"] /\ UNCHANGED <<meta, vectors, builds, service>>
Writes == /\ build.phase = "vectors" /\ UNCHANGED <<meta, builds, service>>
          /\ \/ vectors' = Torn /\ build' = build
             \/ vectors' = build.of /\ build' = [build EXCEPT !.phase = "meta"]
WritesMeta == /\ build.phase = "meta" /\ meta' = build.of /\ build' = Resting
              /\ UNCHANGED <<vectors, builds, service>>
(* An embedding that fails, or a script that is stopped.                     *)
Fails == build.phase # "idle" /\ build' = Resting /\ UNCHANGED <<meta, vectors, builds, service>>

(* ------------------------------ the service ----------------------------- *)
Mut_Rests == index.status # "never"
Rests == index.status = "LOADED" \/ (index.status # "never" /\ ~old)
Reload ==
  /\ load.phase = "idle" /\ ~Rests /\ loads < MaxLoads /\ loads' = loads + 1
  /\ load' = [Unloaded EXCEPT !.phase = "meta"] /\ old' = FALSE
  /\ UNCHANGED <<mine, index, last, starts, disk>>
Keeps(status) ==
  index' = [status |-> status, vectors |-> IF status = "LOADED" THEN vectors ELSE None,
                       mixed |-> load.meta # load.saw \/ vectors # load.saw]
ReadMeta ==
  /\ load.phase = "meta" /\ UNCHANGED <<mine, old, last, starts, loads, disk>>
  /\ IF meta = None THEN Keeps("MISSING") /\ load' = Unloaded
     ELSE load' = [phase |-> "vectors", meta |-> meta, saw |-> vectors] /\ UNCHANGED index
Mut_Usable(m) == vectors # Torn
Usable(m) == m = mine /\ vectors # Torn
ReadVectors ==
  /\ load.phase = "vectors" /\ load' = Unloaded /\ UNCHANGED <<mine, old, last, starts, loads, disk>>
  /\ Keeps(IF vectors = None THEN "MISSING" ELSE IF Usable(load.meta) THEN "LOADED" ELSE "STALE")
(* The message of a client waits for the load at hand; the embedding of its  *)
(* words may fail.                                                           *)
Examples ==
  /\ load.phase = "idle" /\ (Rests \/ loads = MaxLoads) /\ UNCHANGED <<mine, load, index, old, starts, loads, disk>>
  /\ \/ index.status = "LOADED" /\ last' = <<"RAG", index.vectors>>
     \/ last' = <<"KEYWORD", None>>
FiveMinutes == index.status \notin {"never", "LOADED"} /\ ~old /\ old' = TRUE
               /\ UNCHANGED <<mine, load, index, last, starts, loads, disk>>
Restart == /\ starts < MaxStarts /\ starts' = starts + 1 /\ mine' \in Package
           /\ load' = Unloaded /\ index' = NoIndex /\ old' = FALSE /\ last' = <<"none", None>>
           /\ UNCHANGED <<loads, disk>>

Script == Starts \/ Embeds \/ Writes \/ WritesMeta \/ Fails
Service == Reload \/ ReadMeta \/ ReadVectors \/ Examples \/ FiveMinutes
Next == Script \/ Service \/ Restart
(* A load ends; clients write; time passes.  Nobody has to run the script.   *)
Spec == Init /\ [][Next]_vars /\ WF_vars(Reload) /\ WF_vars(ReadMeta \/ ReadVectors) /\ WF_vars(FiveMinutes)
-----------------------------------------------------------------------------
TypeOK ==
  /\ meta \in Package \cup {None} /\ vectors \in Package \cup {None, Torn} /\ mine \in Package
  /\ index.status \in {"never", "MISSING", "STALE", "LOADED"} /\ last[1] \in {"none", "RAG", "KEYWORD"}
(* Examples found by meaning are ranked with the vectors of the package they *)
(* are taken from, whichever package the script was last run for and however *)
(* often the service or the script was stopped.  The exception is an index   *)
(* whose two files were not of one build when they were read: a build was    *)
(* stopped between them, or wrote while the service read.                    *)
RankedByOwn == (last[1] = "RAG" /\ ~index.mixed) => last[2] = mine
(* A service that looked too early finds the index later: once a whole index *)
(* of its package stays on disk, it is loaded, without a restart.            *)
IndexIsFound ==
  <>[](meta = mine /\ vectors = mine /\ build.phase = "idle" /\ loads < MaxLoads) => <>(index.status = "LOADED")
=============================================================================
