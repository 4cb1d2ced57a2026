----------------------------- MODULE MCKeyTables -----------------------------
(* Instances of KeyTables for TLC.                                          *)
EXTENDS KeyTables

Bind3(a, r, prefix) ==
  [k \in {"a", "r", "C-b", "any"} |->
     CASE k = "a" -> a [] k = "r" -> r [] k = "C-b" -> prefix [] k = "any" -> "none"]
Changing == {<<"own", "a">>, <<"prefix", "a">>, <<"prefix", "any">>}

\* As key_bindings_init: keys that repeat in the prefix table, and send-prefix;
\* in the root table a key that may repeat.
Usual ==
  [n \in Names |-> CASE n = "root"   -> Bind3("none", "repeat", "none")
                     [] n = "prefix" -> Bind3("once", "repeat", "once")
                     [] n = "copy"   -> Bind3("once", "none", "none")
                     [] n = "own"    -> Bind3("none", "none", "none")]
=============================================================================
