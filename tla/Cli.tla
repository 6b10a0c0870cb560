---------------------------------- MODULE Cli ----------------------------------
(***************************************************************************)
(* The command line: a run reads its citations, has them retrieved, reads  *)
(* every item back with get, and exits with what it could not do.  Runs    *)
(* follow each other over one cache.                                       *)
(*                                                                         *)
(* An argument is a cite and whether it is spelled the way it is stored.   *)
(***************************************************************************)
EXTENDS Retrieval, Csl

CONSTANTS
  Payload,        \* Payload[c]: the CSL item a source returns for c
  Properties,     \* Properties[c]: set_properties of the pointer at c
  DropFields,     \* --drop-field
  Malformed,      \* an argument that is not prefix:key
  Scripts         \* the command lines that may be run, one after the other

ASSUME CliAssumption ==
  Scripts \subseteq Seq(Seq({Malformed} \cup [cite : Cites, canonical : BOOLEAN]))

VARIABLES
  script,         \* the command lines still to be run
  args,           \* the citations of this run, no argument twice
  exit,           \* the exit status of the last run, Running, or NotRun
  items,          \* what the run wrote
  warned          \* the cites its warnings name

cli == <<script, args, exit, items, warned>>

NotRun == -2
Running == -1
Argument(c, canonical) == [cite |-> c, canonical |-> canonical]

CliInit ==
  /\ Init
  /\ script \in Scripts
  /\ args = <<>> /\ exit = NotRun /\ items = <<>> /\ warned = {}

------------------------------------------------------------------------------
(* Reading the arguments, and opening the cache.                             *)

\* Each argument once, where it came first.
Distinct(line) ==
  At(line, {i \in DOMAIN line : \A j \in 1..(i - 1) : line[j] # line[i]})

Exit(status) == exit' = status /\ UNCHANGED vars

Collect ==
  /\ pc = "idle" /\ exit # Running /\ script # <<>>
  /\ script' = Tail(script)
  /\ items' = <<>> /\ warned' = {}
  /\ IF Contains(Head(script), Malformed)
       THEN args' = <<>> /\ Exit(2)
     ELSE /\ args' = Distinct(Head(script))
          /\ IF Head(script) = <<>>
               THEN Exit(0) \/ Exit(2)   \* writes [], or cannot
             ELSE \/ Exit(2)             \* the cache cannot be opened
                  \/ /\ Retrieve([i \in DOMAIN args' |-> args'[i].cite])
                     /\ exit' = Running

------------------------------------------------------------------------------
(* get, and the report.                                                      *)

\* What store_resolutions stored for c.
StoredSet(c) == RemoveFields(Properties[c], DropFields)
StoredItem(c) == SetId(RemoveFields(Payload[c], DropFields), c)

\* The item get returns for c, when it succeeds.
Get(c) ==
  LET end == CHOOSE i \in DOMAIN Link(c) : Link(c)[i] # NoCite /\ ~Chained(Link(c)[i])
  IN  Assemble(StoredItem(Link(c)[end]),
               [i \in 1..end |-> StoredSet(Link(c)[i - 1])], c)

Resolved == At(args, {i \in DOMAIN args : GetSucceeds(args[i].cite)})
Unresolved == {arg \in ToSet(args) : ~GetSucceeds(arg.cite)}

\* Two spellings of one citation collapse into one item.
Emitted ==
  LET ids == Distinct([i \in DOMAIN Resolved |-> Resolved[i].cite])
  IN  [i \in DOMAIN ids |-> Get(ids[i])]

\* Mutant of Unexplained: a report that names anything is taken to name it all.
UnexplainedWithoutReport == IF failures = {} THEN Unresolved ELSE {}

\* What get could not return and no failure line names as it was spelled.
Unexplained ==
  {arg \in Unresolved : ~(arg.canonical /\ \E f \in failures : f.cite = arg.cite)}

Status == IF Unresolved = {} THEN 0 ELSE 1

\* The retrieve is over: a store error is fatal, otherwise its failures are warned
\* about and the items are read back and written, if they can be.
Finish ==
  /\ exit = Running /\ pc = "idle"
  /\ \/ aborted /\ exit' = 2 /\ UNCHANGED <<items, warned>>
     \/ /\ ~aborted
        /\ warned' = {f.cite : f \in failures} \cup {f.origin : f \in failures}
                       \cup {arg.cite : arg \in Unexplained}
        /\ \/ exit' = 2 /\ UNCHANGED items
           \/ exit' = Status /\ items' = Emitted
  /\ UNCHANGED <<vars, script, args>>

CliStep == Collect \/ Finish \/ (Step /\ UNCHANGED cli)

CliNext ==
  \/ CliStep
  \/ StoreFails /\ UNCHANGED cli
  \/ Tick /\ UNCHANGED cli
  \/ exit # Running /\ Prune /\ UNCHANGED cli   \* another host of the cache

CliSpec == CliInit /\ [][CliNext]_<<vars, cli>>
FairCliSpec == CliSpec /\ WF_<<vars, cli>>(CliStep)

------------------------------------------------------------------------------
Ids == {items[i]["id"] : i \in DOMAIN items}

\* "An unexplained missing item is worse": unless the run was fatal, every citation
\* the user named is among the items written or is named in a warning.
CitesAccountedFor ==
  exit \in {0, 1} => \A arg \in ToSet(args) : arg.cite \in Ids \cup warned

\* "Exit status: 0 if every citation resolved, 1 if some did not".
StatusHonest ==
  exit \in {0, 1} => (exit = 0 <=> \A arg \in ToSet(args) : arg.cite \in Ids)

\* The output holds no citation twice, however it was spelled and chained, and
\* lines up with the list the user handed in.
OutputLinesUp ==
  LET asked == Distinct([i \in DOMAIN args |-> args[i].cite])
  IN  items # <<>> =>
        [i \in DOMAIN items |-> items[i]["id"]]
          = At(asked, {i \in DOMAIN asked : asked[i] \in Ids})

\* What a run says of itself is true: nothing is lost in silence, the status tells
\* success from failure, and the list can be read back against the request.
RunHonest == CitesAccountedFor /\ StatusHonest /\ OutputLinesUp

\* The pointers from c on, by what they may set, nearest first; the last is concrete.
Route(c) ==
  LET links == [i \in 1..MaxChainDepth |-> Link(c)[i - 1]]
  IN  At(links, {i \in DOMAIN links : links[i] # NoCite})

\* Along a chain "the set closest to the request wins" and overrides the item at its
\* end, the id is the requested one "even if set_properties carried an id", and a
\* dropped field comes back from nowhere.
NearestWins ==
  [][Finish /\ exit' # 2 => \A k \in DOMAIN items' :
       LET item == items'[k]
           route == Route(item["id"])
           sets == [i \in DOMAIN route |->
                      IF i < Len(route) THEN Properties[route[i]] ELSE Payload[route[i]]]
       IN  \A f \in DOMAIN item \ {"id"} :
             /\ f \notin DropFields
             /\ \E i \in DOMAIN sets :
                  /\ f \in DOMAIN sets[i] /\ item[f] = sets[i][f]
                  /\ \A j \in 1..(i - 1) : f \notin DOMAIN sets[j]]_<<vars, cli>>

\* Every run ends, whatever cycles the sources' pointers form.
RunEnds == (exit = Running) ~> (exit # Running)
==============================================================================
