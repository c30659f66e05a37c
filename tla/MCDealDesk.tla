----------------------------- MODULE MCDealDesk -----------------------------
(* Instances of Api for TLC.  Its components share no state except the      *)
(* thesis pins, so every behaviour gives work to one scene of them and      *)
(* leaves the others at rest.                                               *)
EXTENDS Api, TLC

CONSTANTS o1, o2, j1, j2, j3, all, inbound

VARIABLE scene   \* the component that has work

Scene == {"desk", "latest", "keys", "moved", "thesis", "walk", "shutdown"}

OppOfJob == (j1 :> o1) @@ (j2 :> o1) @@ (j3 :> o2)
Deliveries == [desk |-> {j1, j2}, latest |-> {j1}, keys |-> {j1, j3}, moved |-> {j1},
               thesis |-> {}, walk |-> {}, shutdown |-> {}]

\* A European and a global mandate, one of them with all its weight on the stage.
Weights(a, b, c, d) == [stage |-> a, sector |-> b, geography |-> c, check_size |-> d]
European ==
  [stages |-> {"seed"}, sectors |-> {"ai"}, excluded |-> {"health"}, regions |-> {"dach"},
   checks |-> {1}, weights |-> Weights(3, 4, 2, 1)]
Mandates == { European,
  [stages |-> {"seed", "pre-seed"}, sectors |-> {"ai"}, excluded |-> {}, regions |-> {"global"},
   checks |-> {1, 2}, weights |-> Weights(1, 0, 0, 0)] }
Facts ==
  [about : {"stage"}, value : {"series-b", "seed"}] \cup [about : {"sector"}, value : {"ai", "health"}]
  \cup [about : {"region"}, value : {"dach", "us"}] \cup [about : {"check"}, value : {1, 2}]

Founders == 1 .. 2
Persons == 1 .. 4
Stamps == 1 .. 2
Rows0 == {NoPerson} \cup [created : Stamps, shown_by : {{all}, {all, inbound}}]

In(scenes, n) == IF scene \in scenes THEN n ELSE 0

Init ==
  /\ ThesisInit /\ DeskInit /\ ListInit /\ RegistryInit
  /\ scene \in Scene
  /\ saves = In({"thesis", "desk"}, 2) + In({"keys", "moved", "latest"}, 1)
  /\ rescores = In({"thesis"}, 1) /\ arrivals = In({"thesis"}, 2)
  /\ researches = (o1 :> In({"desk"}, 1) + In({"latest"}, 2)) @@ (o2 :> 0) /\ deaths = In({"desk"}, 1)
  /\ asks = (o1 :> In({"desk"}, 1) + In({"keys", "moved"}, 2)) @@ (o2 :> In({"keys"}, 1))
  /\ merges = In({"moved"}, 1) /\ link = (o1 :> 2) @@ (o2 :> 1)
  /\ arq = [j \in Job |-> IF j \in Deliveries[scene] THEN 1 ELSE 0]
  /\ person \in (IF scene = "walk" THEN [PersonId -> Rows0] ELSE {[p \in PersonId |-> NoPerson]})
  /\ changes = In({"walk"}, 2)
  /\ failures = In({"shutdown"}, 2)

\* A request is sent to the founder, or to the person who was it before a merge; next to
\* the memo jobs it does not decline, which the keys' scene does.
Sent(q) == (q.who = link[q.opp] \/ q.who \in merged) /\ (scene = "desk" => q.action # "decline")

Next ==
  /\ UNCHANGED scene
  /\ \/ /\ scene \in {"desk", "latest", "keys", "moved"} /\ DeskNext
        /\ \A c \in Caller : /\ reply'[c] # reply[c] => Sent(reply'[c])
                             /\ calls'[c].phase = "arrived" => Sent(calls'[c])
        /\ UNCHANGED <<listVars, registryVars>>
     \/ /\ ThesisNext
        /\ scene # "thesis" => \A x \in Editor : edits'[x].phase = "save" => edits'[x].mandate = European
        /\ UNCHANGED <<deskVars, listVars, registryVars>>
     \/ scene = "walk" /\ ListNext /\ UNCHANGED <<thesisVars, deskVars, registryVars>>
     \/ scene = "shutdown" /\ RegistryNext /\ UNCHANGED <<thesisVars, deskVars, listVars>>

Spec == Init /\ [][Next]_<<scene, componentVars>>

\* Runs, requests and keys are interchangeable.
Symmetry == Permutations(Runner) \cup Permutations(Caller) \cup Permutations(IdemKey)
=============================================================================
