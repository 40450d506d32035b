------------------------------ MODULE MCGoldSet ------------------------------
\* One old gold row, in holdout. The export repeats it, and has two rows with
\* one text. The LLM is unsure of one candidate, which the human calls
\* differently, and calls one negative; the human never gets to one of the
\* others. Two holdout seats and one dev seat are wanted, chunks of two rows.
EXTENDS GoldSet

MCGold == [g1 |-> [label |-> "pos", split |-> "holdout", source |-> "human"]]
MCExports == {<<"c1", "g1", "c2", "c3", "c4">>}
MCText == [c1 |-> "t1", c2 |-> "t2", c3 |-> "t3", c4 |-> "t3", g1 |-> "t4"]
MCLanguage == [c1 |-> "en", c2 |-> "en", c3 |-> "fr", c4 |-> "ru", g1 |-> "en"]
MCPrelabels == [c1 |-> {<<"pos", "high">>}, c2 |-> {<<"pos", "low">>},
                c3 |-> {<<"pos", "high">>}, c4 |-> {<<"neg", "high">>}]
MCVerdicts == [c1 |-> {}, c2 |-> {"neg"}, c3 |-> {"pos"}, c4 |-> {"pos"}]
===============================================================================
