---------------------------- MODULE CandidateList ----------------------------
(***************************************************************************)
(* The candidate listing (list_candidates in                               *)
(* backend/app/api/routes/candidates.py): pages in order of creation time  *)
(* and id, newest first, continued by a cursor that names the last row     *)
(* shown and the filters it was made for.                                  *)
(*                                                                         *)
(* created_at is the start of the creating transaction, so candidates of   *)
(* one discovery share it and a long transaction adds rows in the past.    *)
(***************************************************************************)
EXTENDS Naturals, Sequences, FiniteSets

CONSTANTS
  PersonId,   \* ids, numbers in their order in the database
  Stamp,      \* creation times
  Filter,     \* filters a request may carry
  Reader,     \* walks through the listing
  PageSize    \* limit

ASSUME ListAssumption ==
  /\ PersonId \subseteq Nat /\ IsFiniteSet(PersonId)
  /\ Stamp \subseteq Nat \ {0} /\ PageSize \in Nat \ {0}

VARIABLES
  person,     \* person[p]: NoPerson, or [created, shown_by]: the filters that let it pass
  walk,       \* walk[w]
  changes     \* changes to candidates still to come (model bound)

listVars == <<person, walk, changes>>

NoPerson == [created |-> 0, shown_by |-> {}]
NoCursor == <<>>
AtRest == [phase |-> "idle"]

\* _candidate_query: canonical persons that pass the filter.
Listed(f) == {p \in PersonId : f \in person[p].shown_by}

\* ORDER BY created_at DESC, id DESC.
Before(p, q) ==
  \/ person[p].created > person[q].created
  \/ person[p].created = person[q].created /\ p > q

\* Mutant: the continuation compares creation times only.
After_time(cursor, p) ==
  cursor = NoCursor \/ person[p].created < cursor[1]

\* The WHERE clause of a continuation.
After(cursor, p) ==
  \/ cursor = NoCursor
  \/ person[p].created < cursor[1]
  \/ person[p].created = cursor[1] /\ p < cursor[2]

\* The rows of a page: at most PageSize + 1, in order.
Rows(f, cursor) ==
  LET rest == {p \in Listed(f) : After(cursor, p)}
      n == IF Cardinality(rest) > PageSize THEN PageSize + 1 ELSE Cardinality(rest)
      first == {p \in rest : Cardinality({q \in rest : Before(q, p)}) < n}
  IN CHOOSE s \in [1 .. n -> first] : \A i, j \in 1 .. n : i < j => Before(s[i], s[j])

\* list_candidates without a cursor, or with the cursor of the page before; a cursor
\* made for other filters is refused with a 400 and the walk stays where it is.
Begin(w, f) ==
  /\ walk[w] = AtRest
  /\ walk' = [walk EXCEPT ![w] = [phase |-> "walking", filter |-> f, cursor |-> NoCursor,
                                  seen |-> <<>>, throughout |-> Listed(f)]]
  /\ UNCHANGED <<person, changes>>

Page(w) ==
  LET rows == Rows(walk[w].filter, walk[w].cursor)
      has_next == Len(rows) > PageSize
      items == SubSeq(rows, 1, IF has_next THEN PageSize ELSE Len(rows))
      end == items[Len(items)]
  IN /\ walk[w].phase = "walking"
     /\ walk' = [walk EXCEPT
          ![w].seen = @ \o items,
          ![w].cursor = IF has_next THEN <<person[end].created, end>> ELSE @,
          ![w].phase = IF has_next THEN "walking" ELSE "finished"]
     /\ UNCHANGED <<person, changes>>

\* Candidates are created, merged away, or move in and out of a filter.
Change(p, to) ==
  /\ changes > 0 /\ to # person[p]
  /\ person[p] # NoPerson => to.created = person[p].created
  /\ person' = [person EXCEPT ![p] = to]
  /\ walk' = [w \in Reader |->
       IF walk[w] = AtRest \/ walk[w].filter \in to.shown_by THEN walk[w]
       ELSE [walk[w] EXCEPT !.throughout = @ \ {p}]]
  /\ changes' = changes - 1

ListNext ==
  \/ \E w \in Reader : (\E f \in Filter : Begin(w, f)) \/ Page(w)
  \/ \E p \in PersonId, to \in [created : Stamp, shown_by : SUBSET Filter] : Change(p, to)

ListInit == walk = [w \in Reader |-> AtRest]

\* The walks over any table of persons.
ListSpec ==
  /\ ListInit /\ changes \in Nat
  /\ person \in [PersonId -> {NoPerson} \cup [created : Stamp, shown_by : SUBSET Filter]]
  /\ [][ListNext]_listVars

\* The listing is a table of persons and walks over it.
ListTypeOK ==
  /\ person \in [PersonId -> [created : Stamp \cup {0}, shown_by : SUBSET Filter]]
  /\ \A w \in Reader : walk[w] # AtRest => walk[w].seen \in Seq(PersonId)
  /\ changes \in Nat

\* "Cursor pagination ... newest first with a deterministic tie-break"
\* (candidates.py:894): a walk shows no candidate twice and, when it has finished, every
\* candidate that was listed all along, whatever is created, merged or moved between its
\* pages and however many candidates share a creation time.
WalkComplete ==
  \A w \in Reader : walk[w] # AtRest =>
    /\ \A i, j \in DOMAIN walk[w].seen : i # j => walk[w].seen[i] # walk[w].seen[j]
    /\ walk[w].phase = "finished" =>
         walk[w].throughout \subseteq {walk[w].seen[i] : i \in DOMAIN walk[w].seen}
=============================================================================
