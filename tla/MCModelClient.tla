---- MODULE MCModelClient ----
EXTENDS ModelClient
Said == {<<"{", "x", "}">>, <<"{", "{", "}", "}">>, <<"x">>}
====
