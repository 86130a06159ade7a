------------------------------- MODULE MCFetch -------------------------------
(* Fetch on a small instance: a webhook that answers in plain text.          *)
EXTENDS Fetch, FetchTexts

ADelivery == {[Plain EXCEPT !.role = "http/deliver"]}
Webhook   == {Decoded, PlainOk}
OneRecord == <<<<TRUE>>>>
=============================================================================
