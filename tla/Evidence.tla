------------------------------ MODULE Evidence ------------------------------
(***************************************************************************)
(* From observations to claims (backend/app/processing): a processing run  *)
(* reconciles all observations about a person into claims, embeds them and *)
(* supersedes near duplicates, while collections write more observations   *)
(* and merges move them between persons (Identity).                        *)
(*                                                                         *)
(* A run reads when its transaction begins and commits after the embedding *)
(* calls; the deduplication reads just before the commit and is part of it.*)
(* Trust scores and validity times are left out.                           *)
(***************************************************************************)
EXTENDS Identity, SequencesExt

CONSTANTS
  Processor,     \* process_candidate_job runs that may overlap
  ProcessBound   \* model bound: runs

ASSUME ProcessBound \in Nat

VARIABLES
  claims,     \* Claim rows, in the order of their insertion
  process,    \* process[w]: a run
  started,    \* runs started
  done        \* what committed runs have read: <<person, rows>> (history)

claimVars == <<claims, process, started, done>>
vars == <<identityVars, claimVars>>

\* Observations are grouped by predicate and opportunity.
Group(row) == <<row[1].predicate, row[1].deal>>
GroupOf(c) == Group(CHOOSE row \in c.rows : TRUE)
ValueOf(c) == (CHOOSE row \in c.rows : TRUE)[1].value

IdleProcess == [person |-> Nobody, rows |-> {}, known |-> {}, open |-> {}, stamp |-> 0,
                again |-> FALSE]

\* reconcile_observations reads the observations and all claims about the person.
ProcessRead(w, p) ==
  LET known == {i \in DOMAIN claims : claims[i].person = p}
  IN /\ process[w] = IdleProcess /\ started < ProcessBound
     /\ About(p) # {}
     /\ process' = [process EXCEPT ![w] =
           [person |-> p, rows |-> About(p), known |-> known,
            open |-> {i \in known : claims[i].by = 0},
            stamp |-> started + 1, again |-> <<p, About(p)>> \in done]]
     /\ started' = started + 1
     /\ UNCHANGED <<identityVars, claims, done>>

\* Mutant: of a contradiction only the stronger observation makes a claim.
Outcomes_winner_only(rows) ==
  IF Cardinality(rows) = 1 THEN {[status |-> "unverified", rows |-> rows]}
  ELSE IF \A x, y \in rows : x[1].value = y[1].value
         THEN {[status |-> "supported", rows |-> rows]}
         ELSE {[status |-> "contradicted", rows |-> {CHOOSE row \in rows : TRUE}]}

\* What the observations of one group come to: one is unverified, several that agree
\* support one claim, several that do not are contradicted one by one.
Outcomes(rows) ==
  IF Cardinality(rows) = 1 THEN {[status |-> "unverified", rows |-> rows]}
  ELSE IF \A x, y \in rows : x[1].value = y[1].value
         THEN {[status |-> "supported", rows |-> rows]}
         ELSE {[status |-> "contradicted", rows |-> {row}] : row \in rows}

\* Mutant: claims that were superseded since are not found again.
Found_current(w, out) ==
  \E i \in process[w].open : claims[i].status = out.status /\ claims[i].rows = out.rows

\* _find_matching_claim, among the claims this run has read.
Matching(w, out) ==
  \E i \in process[w].known : claims[i].status = out.status /\ claims[i].rows = out.rows

GroupsRead(w) == {Group(row) : row \in process[w].rows}
RowsOf(w, g) == {row \in process[w].rows : Group(row) = g}

\* The outcome that closes the earlier claims of its group: the supported one or the
\* stronger of the contradicted.
Heads(w, g) ==
  {out \in Outcomes(RowsOf(w, g)) : out.status # "unverified"}

Wanted(w) == UNION {Outcomes(RowsOf(w, g)) : g \in GroupsRead(w)}

\* Mutant: the claims the run has inserted are among them.
Prior_own(run, cs) == run.open \cup {i \in DOMAIN cs : cs[i].stamp = run.stamp}

\* The claims a new head may close: those the run has read as current.
Prior(run, cs) == run.open \cap DOMAIN cs

\* Mutant: the predicate of the earlier claim is not compared.
Closers_any(head, missing, c) == {g \in DOMAIN head : head[g] \in missing}

\* _close_superseded_claims: the group whose new head closes claim c.
Closers(head, missing, c) == {g \in DOMAIN head : g = GroupOf(c) /\ head[g] \in missing}

\* The order in which deduplicate_claims visits claims: newest first.
Newer(cs, i, j) == cs[i].stamp > cs[j].stamp \/ (cs[i].stamp = cs[j].stamp /\ i < j)

\* The claims deduplicate_claims selects.
Current(cs, p) == {i \in DOMAIN cs : cs[i].person = p /\ cs[i].by = 0}

\* deduplicate_claims over the current claims about p: equal statements have equal
\* embeddings, and the first in the order replaces the others.
Deduplicated(cs, p) ==
  LET current == Current(cs, p)
      twins(i) == {k \in current : /\ Newer(cs, k, i)
                                   /\ GroupOf(cs[k]) = GroupOf(cs[i])
                                   /\ ValueOf(cs[k]) = ValueOf(cs[i])}
  IN [i \in DOMAIN cs |->
        IF i \in current /\ twins(i) # {}
          THEN [cs[i] EXCEPT !.by =
                  CHOOSE k \in twins(i) : \A l \in twins(i) \ {k} : Newer(cs, k, l)]
          ELSE cs[i]]

\* The commit: missing claims are inserted, those read as current are closed if the
\* group has a new head, and the result is deduplicated if it could be embedded.
ProcessCommit(w) ==
  LET run == process[w]
      p == run.person
      heads == {g \in GroupsRead(w) : Heads(w, g) # {}}
  IN /\ p # Nobody
     /\ \E head \in {h \in [heads -> UNION {Heads(w, g) : g \in heads}] :
                        \A g \in heads : h[g] \in Heads(w, g)} :
        \E embedded \in BOOLEAN :
          LET missing == {out \in Wanted(w) : ~Matching(w, out)}
              new == SetToSeq(missing)
              row(out) == [person |-> p, status |-> out.status, rows |-> out.rows,
                           by |-> 0, stamp |-> run.stamp]
              all == claims \o [k \in DOMAIN new |-> row(new[k])]
              place(out) == Len(claims) + CHOOSE k \in DOMAIN new : new[k] = out
              closed == [i \in DOMAIN all |->
                 LET by == Closers(head, missing, all[i])
                 IN IF i \in Prior(run, all) /\ by # {}
                      THEN [all[i] EXCEPT !.by = place(head[CHOOSE g \in by : TRUE])]
                      ELSE all[i]]
          IN claims' = IF embedded THEN Deduplicated(closed, p) ELSE closed
     /\ done' = done \cup {<<p, run.rows>>}
     /\ process' = [process EXCEPT ![w] = IdleProcess]
     /\ UNCHANGED <<identityVars, started>>

\* The run raises or its worker dies: nothing is written but the ledger row.
ProcessFails(w) ==
  /\ process[w] # IdleProcess
  /\ process' = [process EXCEPT ![w] = IdleProcess]
  /\ UNCHANGED <<identityVars, claims, started, done>>

-----------------------------------------------------------------------------
Init ==
  /\ IdentityInit
  /\ claims = <<>> /\ process = [w \in Processor |-> IdleProcess]
  /\ started = 0 /\ done = {}

Next ==
  \/ IdentityNext /\ UNCHANGED claimVars
  \/ \E w \in Processor :
       (\E p \in Person : ProcessRead(w, p)) \/ ProcessCommit(w) \/ ProcessFails(w)

Spec == Init /\ [][Next]_vars

(***************************************************************************)
(* Properties.                                                             *)
(***************************************************************************)
\* Claims point forward inside their person and group, and identity stays well formed.
TypeOK ==
  /\ IdentityTypeOK
  /\ \A i \in DOMAIN claims :
       /\ claims[i].status \in {"unverified", "supported", "contradicted"}
       /\ claims[i].rows # {} /\ claims[i].by \in 0 .. Len(claims)
       /\ claims[i].by # 0 => /\ claims[claims[i].by].person = claims[i].person
                              /\ GroupOf(claims[claims[i].by]) = GroupOf(claims[i])

\* "Rerunning the same observations creates zero rows", whatever overlapped before, is
\* superseded since or is stronger by now.
RerunCreatesNothing ==
  [][\A w \in Processor :
       process[w].again /\ process'[w] = IdleProcess => Len(claims') = Len(claims)]_vars

\* No supersession, by a new head or by deduplication, of runs that overlap or not,
\* leaves a group of a person without a current claim.
GroupKeepsCurrentClaim ==
  \A i \in DOMAIN claims :
    \E j \in DOMAIN claims : /\ claims[j].person = claims[i].person
                             /\ GroupOf(claims[j]) = GroupOf(claims[i])
                             /\ claims[j].by = 0

\* Evidence is not dropped: every observation a committed run has read is cited by a
\* claim about that person, the unfavourable ones too, and stays so after merges.
EvidenceCited ==
  \A d \in done : \A row \in d[2] :
    \E i \in DOMAIN claims : claims[i].person = d[1] /\ row \in claims[i].rows
=============================================================================
