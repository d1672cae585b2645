--------------------------- MODULE MCExtensionTabs ---------------------------
(* Instances of ExtensionTabs for TLC.                                     *)
EXTENDS ExtensionTabs

CONSTANTS first, second, f1, f2, rule, captcha

\* The last image differs from the one before only behind the prefix the key takes.
Keys == [i \in 1 .. Images |-> IF i = 3 THEN 2 ELSE i]

\* The first rule is for the whole site but for one address, the second for the
\* first address.
MatchedAddresses == <<{first, second}, {first}>>
FilledFields == <<<<f1, f2>>, <<f2>>>>

Kinds == [i \in Item |-> IF i = rule THEN "rules" ELSE "routes"]
=============================================================================
