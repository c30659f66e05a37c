----------------------------- MODULE Submission -----------------------------
(***************************************************************************)
(* What POST /inbound/pitch and the job behind it promise the client of a  *)
(* pitch (backend/app/api/routes/inbound.py, agents/inbound_job.py): the   *)
(* first request of an idempotency key is accepted, every other one is     *)
(* told the same ids for good; the deck is turned into observations, then  *)
(* into claims, once each; and the job is shown as succeeded only after    *)
(* that.  Nothing is said of transactions, the outbox, Arq, retries or     *)
(* faults; module InboundDelivery is shown to implement this.              *)
(***************************************************************************)
CONSTANTS Pitch,    \* requests
          KeyOf,    \* Idempotency-Key of a request
          Nobody    \* no request

VARIABLES told,     \* told[r]: the request whose ids r was answered with, or Nobody
          deck,     \* deck[r]: how far the deck of r has come
          shown     \* shown[r]: status of the job, as its row reads

view == <<told, deck, shown>>

Accepted == {r \in Pitch : deck[r] # "none"}
Stands(r) == {q \in Accepted : KeyOf[q] = KeyOf[r]}

Init ==
  /\ told = [r \in Pitch |-> Nobody]
  /\ deck = [r \in Pitch |-> "none"]
  /\ shown = [r \in Pitch |-> "none"]

\* The first request of its key: all its rows exist at once.
Accept(r) ==
  /\ told[r] = Nobody /\ Stands(r) = {}
  /\ told' = [told EXCEPT ![r] = r]
  /\ deck' = [deck EXCEPT ![r] = "accepted"]
  /\ shown' = [shown EXCEPT ![r] = "queued"]

\* Any other request of the key.
Repeat(r) ==
  /\ told[r] = Nobody
  /\ \E q \in Stands(r) : told' = [told EXCEPT ![r] = q]
  /\ UNCHANGED <<deck, shown>>

\* The observations of a deck appear.
Observe(r) ==
  /\ deck[r] = "accepted"
  /\ deck' = [deck EXCEPT ![r] = "observed"]
  /\ UNCHANGED <<told, shown>>

\* One processing run turns the observations of several decks of a founder into claims.
Claim(R) ==
  /\ \A r \in R : deck[r] \in {"observed", "claimed"}
  /\ deck' = [r \in Pitch |-> IF r \in R THEN "claimed" ELSE deck[r]]
  /\ UNCHANGED <<told, shown>>

\* The row may fall back, since deliveries overlap, but it never claims too much.
Show(r, status) ==
  /\ deck[r] # "none"
  /\ status = "succeeded" => deck[r] = "claimed"
  /\ shown' = [shown EXCEPT ![r] = status]
  /\ UNCHANGED <<told, deck>>

Next ==
  \/ \E r \in Pitch :
       \/ Accept(r) \/ Repeat(r) \/ Observe(r)
       \/ \E status \in {"running", "succeeded", "failed"} : Show(r, status)
  \/ \E R \in SUBSET Pitch : Claim(R)

Spec == Init /\ [][Next]_view
=============================================================================
