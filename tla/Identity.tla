------------------------------ MODULE Identity ------------------------------
(***************************************************************************)
(* Who a piece of evidence is about.  Discovery finds or creates a person  *)
(* by a source account and writes observations; a collection queued then   *)
(* writes more for the same person (backend/app/collectors/jobs.py);       *)
(* identity resolution merges persons that match and asks a reviewer about *)
(* those that may (backend/app/identity, api/routes/collection.py).        *)
(*                                                                         *)
(* An account stands for the person first created for it: stable_id, which *)
(* is unique, is the account.  A step is a committed transaction, except   *)
(* that a resolution works on what it read, pair by pair, and commits at   *)
(* the end; its updates need no locks here because they are applied to the *)
(* rows as they are when it commits.                                       *)
(***************************************************************************)
EXTENDS Integers, Sequences, FiniteSets

CONSTANTS
  Person,        \* accounts, and the persons created for them; uuids in numeric order
  SourceOf,      \* source type of an account
  Fact,          \* what the sources say: [account, predicate, value, deal]
  NoDeal,        \* the deal of facts that belong to no opportunity
  Collector,     \* discovery runs and the collections they queue, at work at once
  Resolver,      \* resolve_identities runs that may overlap
  RoundBound     \* model bound: discoveries and resolutions together

\* Predicates, as far as matching tells them apart: a "strong" one (email, twitter
\* handle, blog or website) identifies a person; a "name" needs corroboration.
Predicate == {"strong", "name", "corroborating"}

ASSUME IdentityAssumption ==
  /\ Person \subseteq Nat \ {0} /\ IsFiniteSet(Person) /\ IsFiniteSet(Fact)
  /\ IsFiniteSet(Resolver)
  /\ \A f \in Fact : f.account \in Person /\ f.predicate \in Predicate
  /\ RoundBound \in Nat

VARIABLES
  born,      \* born[p]: created_at of p, equal for persons of one transaction; 0 = no row
  into,      \* into[p]: superseded_by_id, or Nobody while p is canonical
  handles,   \* handles[p]: accounts in p's handles column
  subject,   \* subject[<<f, p>>]: subject_id of the observation of f first written for
             \* p (its fingerprint), or Nobody
  matches,   \* PersonMatch rows
  collect,   \* collect[w]: the persons a collector works for, by account
  resolve,   \* resolve[r]: a resolution
  rounds,    \* discoveries and resolutions still allowed (model bound)
  remerged   \* a resolution has merged a person that was merged meanwhile (history)

evidence == <<born, into, handles, subject>>
identityVars == <<evidence, matches, collect, resolve, rounds, remerged>>

Nobody == 0
Pair == {pr \in SUBSET Person : Cardinality(pr) = 2}
Row == Fact \X Person

Exists(p) == born[p] # 0
Canonical(p) == Exists(p) /\ into[p] = Nobody

\* The rows about p.
About(p) == {r \in Row : subject[r] = p}

(***************************************************************************)
(* Collection.                                                             *)
(***************************************************************************)
\* _get_or_create_person: the rows whose handles name account a, ...
Found(a) == {p \in Person : Exists(p) /\ a \in handles[p]}

\* ... and the steps along the supersession chain of p, to the person at its end.
Walk(p) == LET step[n \in 0 .. Cardinality(Person)] ==
                 IF n = 0 THEN p
                 ELSE LET q == step[n - 1] IN IF into[q] = Nobody THEN q ELSE into[q]
           IN step
Chain(p) == Walk(p)[Cardinality(Person)]

\* A discovery: of the accounts of a page it creates the unknown persons, together, and
\* follows the known ones.  If two persons have an account the query raises and the whole
\* discovery fails.
Discover(w, A) ==
  LET new == {a \in A : Found(a) = {}}
      now == 1 + Cardinality({born[p] : p \in {q \in Person : Exists(q)}})
  IN /\ collect[w] = <<>> /\ rounds > 0
     /\ \A a \in new : ~Exists(a)
     /\ IF \E a \in A : Cardinality(Found(a)) > 1
          THEN UNCHANGED <<born, handles, collect>>
          ELSE /\ born' = [p \in Person |-> IF p \in new THEN now ELSE born[p]]
               /\ handles' = [p \in Person |-> IF p \in new THEN {p} ELSE handles[p]]
               /\ collect' = [collect EXCEPT ![w] =
                     [a \in A |-> IF a \in new THEN a
                                  ELSE Chain(CHOOSE p \in Found(a) : TRUE)]]
     /\ rounds' = rounds - 1
     /\ UNCHANGED <<into, subject, matches, resolve, remerged>>

Stored(f, p) == \E q \in Person : subject[<<f, q>>] = p

\* Mutant: the fingerprint is of the fact and the run that found it.
Write_no_lookup(w, a) ==
  LET p == collect[w][a]
      said == {f \in Fact : f.account = a}
  IN /\ a \in DOMAIN collect[w]
     /\ \E q \in Person :
          /\ \A f \in said : subject[<<f, q>>] = Nobody
          /\ subject' = [row \in Row |-> IF row \in said \X {q} THEN p ELSE subject[row]]
     /\ UNCHANGED <<born, into, handles, matches, collect, resolve, rounds, remerged>>

\* _write_observations, long after the person was looked up, all that the source says in
\* one transaction: an observation of the person that says the same is reused, else one
\* is inserted.  (One that was written for this person and has moved on since makes the
\* insert collide: the run fails.)
Write(w, a) ==
  LET p == collect[w][a]
      new == {f \in Fact : f.account = a /\ ~Stored(f, p)}
  IN /\ a \in DOMAIN collect[w]
     /\ \A f \in new : subject[<<f, p>>] = Nobody
     /\ subject' = [row \in Row |-> IF row \in new \X {p} THEN p ELSE subject[row]]
     /\ UNCHANGED <<born, into, handles, matches, collect, resolve, rounds, remerged>>

\* The collection ends, or fails, and the collector goes on to another discovery.
Leave(w) ==
  /\ collect[w] # <<>> /\ rounds > 0
  /\ collect' = [collect EXCEPT ![w] = <<>>]
  /\ UNCHANGED <<evidence, matches, resolve, rounds, remerged>>

(***************************************************************************)
(* Matching.  The first observation of a predicate counts, in no order.    *)
(***************************************************************************)
\* What the rows R say under a predicate.
Values(R, pred) == {r[1].value : r \in {s \in R : s[1].predicate = pred}}
Agree(x, y) == x # {} /\ y # {} /\ x \cap y # {}
MayDiffer(x, y) == \/ x = {} \/ y = {} \/ \E v \in x, u \in y : v # u

\* match_confidence, should_auto_merge and the review threshold: what may come out.
Verdicts(X, Y) ==
  LET agree(pred) == Agree(Values(X, pred), Values(Y, pred))
      differ(pred) == MayDiffer(Values(X, pred), Values(Y, pred))
  IN {v \in {"merge", "review", "apart"} :
        CASE v = "merge"  -> agree("strong") \/ (agree("name") /\ agree("corroborating"))
          [] v = "review" -> differ("strong") /\ agree("name") /\ differ("corroborating")
          [] v = "apart"  -> differ("strong") /\ differ("name")}

\* _build_blocking_keys: only pairs that share an identifying value are compared.
Blocked(p, q) == \E pred \in {"strong", "name"} :
                   Agree(Values(About(p), pred), Values(About(q), pred))

\* Mutant: of two persons created together either may be named first.
Elder_unordered(c, d) == c # d /\ born[c] <= born[d]

\* The person that stays is the one created earlier; of two created together, the one
\* with the smaller id.
Elder(c, d) == born[c] < born[d] \/ (born[c] = born[d] /\ c < d)

\* merge_persons, handles: those of the duplicate for sources the canonical one lacks.
Union(h, c, d) ==
  [h EXCEPT ![c] = @ \cup {a \in h[d] : \A b \in h[c] : SourceOf[a] # SourceOf[b]}]

(***************************************************************************)
(* resolve_identities_job.                                                 *)
(***************************************************************************)
IdleResolver == [phase |-> "idle", pairs |-> {}, gone |-> {}, to |-> [p \in Person |-> p],
                 handles |-> [p \in Person |-> {}], merged |-> {}, flag |-> {}]

\* The canonical persons and their blocking keys.
ResolveRead(r) ==
  /\ resolve[r] = IdleResolver /\ rounds > 0
  /\ resolve' = [resolve EXCEPT ![r] =
        [IdleResolver EXCEPT
           !.phase = "pairs", !.handles = handles,
           !.pairs = {pr \in Pair : /\ \A p \in pr : Canonical(p)
                                    /\ \E p, q \in pr : p # q /\ Blocked(p, q)}]]
  /\ rounds' = rounds - 1
  /\ UNCHANGED <<evidence, matches, collect, remerged>>

\* The rows about p as the resolution sees them: its own moves included.
Seen(r, p) == {row \in Row : subject[row] # Nobody /\ resolve[r].to[subject[row]] = p}

Pending(pr) == {i \in DOMAIN matches : matches[i] = [pair |-> pr, status |-> "pending"]}

\* The pair is put up for review unless it is there.
Flag(r, pr) == IF Pending(pr) = {} THEN resolve[r].flag \cup {pr} ELSE resolve[r].flag

\* One pair: skipped if this run has merged one of the two, else merged, flagged or let
\* go.  A pair with two pending rows raises where at most one is expected.
ResolvePair(r, c, d) ==
  LET pr == {c, d}
      rest == [resolve[r] EXCEPT !.pairs = @ \ {pr}]
  IN /\ resolve[r].phase = "pairs" /\ pr \in resolve[r].pairs
     /\ Elder(c, d)
     /\ IF pr \cap resolve[r].gone # {}
          THEN resolve' = [resolve EXCEPT ![r] = rest]
          ELSE \E v \in Verdicts(Seen(r, c), Seen(r, d)) :
                 resolve' = [resolve EXCEPT ![r] =
                   CASE v = "merge" ->
                          [rest EXCEPT
                             !.gone = @ \cup {d}, !.merged = @ \cup {<<c, d>>},
                             !.to = [p \in Person |-> IF @[p] = d THEN c ELSE @[p]],
                             !.handles = Union(@, c, d)]
                     [] v = "review" ->
                          IF Cardinality(Pending(pr)) > 1 THEN IdleResolver
                          ELSE [rest EXCEPT !.flag = Flag(r, pr)]
                     [] v = "apart" -> rest]
     /\ UNCHANGED <<evidence, matches, collect, rounds, remerged>>

\* Mutant: a pair that shares several blocking keys is flagged for each of them.
InSomeOrder_per_key(F) ==
  LET orders == {s \in [1 .. Cardinality(F) -> F] : \A i, j \in DOMAIN s : i # j => s[i] # s[j]}
  IN {s \o s : s \in orders}

\* The review rows of one flush: each pair once.
InSomeOrder(F) ==
  {s \in [1 .. Cardinality(F) -> F] : \A i, j \in DOMAIN s : i # j => s[i] # s[j]}

\* The commit writes the merges over whatever the rows say by now.
ResolveCommit(r) ==
  LET run == resolve[r]
      keep == {m[1] : m \in run.merged}
  IN /\ run.phase = "pairs" /\ run.pairs = {}
     /\ into' = [p \in Person |-> IF p \in run.gone
                                   THEN (CHOOSE m \in run.merged : m[2] = p)[1] ELSE into[p]]
     /\ handles' = [p \in Person |-> IF p \in keep THEN run.handles[p] ELSE handles[p]]
     /\ subject' = [row \in Row |-> IF subject[row] = Nobody THEN Nobody
                                     ELSE run.to[subject[row]]]
     /\ \E s \in InSomeOrder(run.flag) :
          matches' = matches \o [i \in DOMAIN s |-> [pair |-> s[i], status |-> "pending"]]
     /\ resolve' = [resolve EXCEPT ![r] = IdleResolver]
     /\ remerged' = (remerged \/ \E d \in run.gone : ~Canonical(d))
     /\ UNCHANGED <<born, collect, rounds>>

\* The run raises or its worker dies: nothing is written.
ResolveFails(r) ==
  /\ resolve[r].phase = "pairs"
  /\ resolve' = [resolve EXCEPT ![r] = IdleResolver]
  /\ UNCHANGED <<evidence, matches, collect, rounds, remerged>>

(***************************************************************************)
(* A reviewer.                                                             *)
(***************************************************************************)
Resolved(i, status) == [matches EXCEPT ![i].status = status]

\* approve_match: the elder stays, even if it was merged itself meanwhile; a younger one
\* that was merged is left alone.
Approve(i, c, d) ==
  /\ matches[i] = [pair |-> {c, d}, status |-> "pending"]
  /\ Elder(c, d)
  /\ IF Canonical(d)
       THEN /\ into' = [into EXCEPT ![d] = c]
            /\ handles' = Union(handles, c, d)
            /\ subject' = [row \in Row |-> IF subject[row] = d THEN c ELSE subject[row]]
       ELSE UNCHANGED <<into, handles, subject>>
  /\ matches' = Resolved(i, "approved")
  /\ UNCHANGED <<born, collect, resolve, rounds, remerged>>

\* reject_match.
Reject(i) ==
  /\ matches[i].status = "pending"
  /\ matches' = Resolved(i, "rejected")
  /\ UNCHANGED <<evidence, collect, resolve, rounds, remerged>>

-----------------------------------------------------------------------------
IdentityInit ==
  /\ born = [p \in Person |-> 0]
  /\ into = [p \in Person |-> Nobody]
  /\ handles = [p \in Person |-> {}]
  /\ subject = [row \in Row |-> Nobody]
  /\ matches = <<>>
  /\ collect = [w \in Collector |-> <<>>]
  /\ resolve = [r \in Resolver |-> IdleResolver]
  /\ rounds = RoundBound
  /\ remerged = FALSE

IdentityNext ==
  \/ \E w \in Collector :
       \/ \E A \in SUBSET Person \ {{}} : Discover(w, A)
       \/ \E a \in Person : Write(w, a)
       \/ Leave(w)
  \/ \E r \in Resolver :
       \/ ResolveRead(r) \/ ResolveCommit(r) \/ ResolveFails(r)
       \/ \E c, d \in Person : ResolvePair(r, c, d)
  \/ \E i \in DOMAIN matches : Reject(i) \/ \E c, d \in Person : Approve(i, c, d)

IdentitySpec == IdentityInit /\ [][IdentityNext]_identityVars

(***************************************************************************)
(* Properties.                                                             *)
(***************************************************************************)
\* Persons, observations and reviews stay well formed.
IdentityTypeOK ==
  /\ born \in [Person -> Nat]
  /\ into \in [Person -> Person \cup {Nobody}]
  /\ handles \in [Person -> SUBSET Person]
  /\ subject \in [Row -> Person \cup {Nobody}]
  /\ \A i \in DOMAIN matches : /\ matches[i].pair \in Pair
                               /\ matches[i].status \in {"pending", "approved", "rejected"}
  /\ \A w \in Collector : \A a \in DOMAIN collect[w] : Exists(collect[w][a])
  /\ \A r \in Resolver : resolve[r].gone \subseteq Person /\ resolve[r].pairs \subseteq Pair

\* However resolutions and reviews overlap, the loop that follows superseded_by_id ends
\* at a canonical person.
ChainsEnd ==
  \A p \in Person : Exists(p) => Canonical(Chain(p))

\* Resolutions look for a pending review before they ask for one, but not for what others
\* are about to ask.  A reviewer never finds more rows of one pair than resolutions can
\* overlap: one for each, and nothing is added to those; so a single resolution at a time
\* asks once, whatever reviewers do meanwhile.
AskedOncePerOverlap ==
  \A pr \in Pair : Cardinality(Pending(pr)) <= Cardinality(Resolver)

\* Overlapping collections and merges never let one source's statement count twice about
\* a person: no two observations of one fact have the same subject.  One overlap does,
\* and is excepted: a resolution that commits a merge of a person another one has merged
\* since it was read moves what was written for that person in between, next to what the
\* first merge moved.
CountedOnce ==
  ~remerged => \A f \in Fact, p, q \in Person :
    p # q /\ subject[<<f, p>>] # Nobody => subject[<<f, p>>] # subject[<<f, q>>]
=============================================================================
