-------------------------- MODULE MCTextAlgorithms --------------------------
(* Texts for TextAlgorithms.                                                   *)
EXTENDS TextAlgorithms

MCKinds == AllKinds

\* k, `:', `: ' and \r\n; the fields k:k and k: k and \r\n, as many as there are places
\* for and more; 2, =, &, a lone %, and the escapes %20, %26, %62; bytes at the limits
\* of the groups of six bits; lengths at the limits of the three forms.
MCPieces == [fields  |-> {<<107>>, <<58>>, <<58, 32>>, <<13, 10>>},
             records |-> {<<107, 58, 107, 13, 10>>, <<107, 58, 32, 107, 13, 10>>, <<13, 10>>},
             query   |-> {<<50>>, <<61>>, <<38>>, <<37>>, <<37, 50, 48>>, <<37, 50, 54>>,
                          <<37, 54, 50>>},
             bytes   |-> {<<b>> : b \in {0, 3, 64, 127, 252, 255}},
             length  |-> {<<n>> : n \in {0, 1, 125, 126, 127, 128, 255, 256, 65535, 65536}}]

MCMaxLen == [fields |-> 13, records |-> 20, query |-> 9, bytes |-> 6, length |-> 1]
=============================================================================
