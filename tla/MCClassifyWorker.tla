--------------------------- MODULE MCClassifyWorker ---------------------------
(* A blank text, a short one, one that fits after three halvings and one     *)
(* that does not, in batches that put a blank first, between and alone.      *)
EXTENDS ClassifyWorker

MCTexts == {"blank", "short", "dense", "hopeless"}
MCFits == [x \in MCTexts |-> CASE x = "dense" -> 30 [] x = "hopeless" -> 10
                               [] OTHER -> MaxTokens]
MCBatches == {<<"blank">>, <<"blank", "short">>, <<"dense", "blank", "short">>,
              <<"short", "hopeless">>}
=============================================================================
