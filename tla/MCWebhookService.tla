------------------------- MODULE MCWebhookService -------------------------
(* Events of a vendor about one application: a clearance, and two sent     *)
(* without an event id, a refusal and one with a broken body.              *)
EXTENDS WebhookService

CONSTANT a1

ClearH1 == [header |-> "h1", app |-> a1, outcome |-> "CLEAR", wellFormed |-> TRUE]
FailNoHeader == [ClearH1 EXCEPT !.header = "", !.outcome = "FAIL"]
MalformedNoHeader == [ClearH1 EXCEPT !.header = "", !.wellFormed = FALSE]

Clearance == {ClearH1}
Mixed == {ClearH1, FailNoHeader, MalformedNoHeader}
=============================================================================
