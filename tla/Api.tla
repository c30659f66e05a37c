-------------------------------- MODULE Api --------------------------------
(***************************************************************************)
(* The components behind the API, side by side in one process: theses, the *)
(* memo and decision desk, the candidate listing and the registry of       *)
(* provider clients.  They meet only in the thesis pins, which the desk    *)
(* reads; a step of one leaves the rows of the others alone.               *)
(***************************************************************************)
EXTENDS DealDesk, CandidateList, ClientRegistry

componentVars == <<thesisVars, deskVars, listVars, registryVars>>

\* Any persons at first, and any finite number of requests, deaths and failures to come.
ApiInit ==
  /\ ThesisInit /\ DeskInit /\ ListInit /\ RegistryInit
  /\ saves \in Nat /\ rescores \in Nat /\ arrivals \in Nat /\ deaths \in Nat
  /\ merges \in Nat
  /\ researches \in [Opp -> Nat] /\ asks \in [Opp -> Nat] /\ arq \in [Job -> Nat]
  /\ changes \in Nat /\ failures \in Nat
  /\ person \in [PersonId -> {NoPerson} \cup [created : Stamp, shown_by : SUBSET Filter]]

ApiNext ==
  \/ DeskNext /\ UNCHANGED <<listVars, registryVars>>
  \/ ThesisNext /\ UNCHANGED <<deskVars, listVars, registryVars>>
  \/ ListNext /\ UNCHANGED <<thesisVars, deskVars, registryVars>>
  \/ RegistryNext /\ UNCHANGED <<thesisVars, deskVars, listVars>>

ApiSpec == ApiInit /\ [][ApiNext]_componentVars

\* Every component stays well formed next to the others.
TypeOK == ThesisTypeOK /\ DeskTypeOK /\ ListTypeOK /\ RegistryTypeOK
=============================================================================
