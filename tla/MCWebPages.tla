------------------------------ MODULE MCWebPages ------------------------------
EXTENDS WebPages

MCTokens == {[id |-> 1, client |-> "c1", user |-> "u1"], [id |-> 2, client |-> "c2", user |-> "u2"]}

MCMaxInputs ==
  [p \in Pages |-> IF p \in {"roles", "scopes", "users", "applications"} THEN 2 ELSE 3]
=============================================================================
