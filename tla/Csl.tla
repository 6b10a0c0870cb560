---------------------------------- MODULE Csl ----------------------------------
(***************************************************************************)
(* CSL items as get and store_resolutions handle them: an item, or a set   *)
(* of properties on a pointer, is a function from its fields to values.    *)
(***************************************************************************)
EXTENDS SequencesExt

SetId(item, id) == [f \in DOMAIN item \cup {"id"} |-> IF f = "id" THEN id ELSE item[f]]

RemoveFields(item, fields) == Restrict(item, DOMAIN item \ fields)

\* The fields of both, with the first one's value where both have the field.
Over(first, second) ==
  [f \in DOMAIN first \cup DOMAIN second |->
     IF f \in DOMAIN first THEN first[f] ELSE second[f]]

\* The target's own value is kept; the override's value is taken.
MergeDefaults(target, overrides) == Over(target, overrides)
MergeOver(target, overrides) == Over(overrides, target)

\* Mutant of Gather: the set furthest from the request wins.
GatherFurthest(sets) ==
  LET gathered[i \in 0..Len(sets)] ==
        IF i = 0 THEN <<>> ELSE MergeOver(gathered[i - 1], sets[i])
  IN  gathered[Len(sets)]

\* The sets of the pointers followed, nearest to the request first.
Gather(sets) ==
  LET gathered[i \in 0..Len(sets)] ==
        IF i = 0 THEN <<>> ELSE MergeDefaults(gathered[i - 1], sets[i])
  IN  gathered[Len(sets)]

\* What get returns for the item it ends at.
Assemble(concrete, sets, id) == SetId(MergeOver(concrete, Gather(sets)), id)
==============================================================================
