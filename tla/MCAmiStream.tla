---------------------------- MODULE MCAmiStream -----------------------------
(* Streams for AmiStream.                                                      *)
EXTENDS AmiStream

CONSTANTS t1, t2

\* A message whose lines have the lengths ls.
Msg(k, ls) == [kind |-> k, lines |-> ls]

\* The messages put behind one another; all but the banner end in a blank line.
Place(ms) ==
  LET LineEnd[i \in 0..20, ls \in {ms[k].lines : k \in DOMAIN ms}] ==
        IF i = 0 THEN 0 ELSE LineEnd[i - 1, ls] + ls[i]
      Size(k) == LineEnd[Len(ms[k].lines), ms[k].lines] + (IF k = 1 THEN 0 ELSE 2)
      before[k \in 1..Len(ms)] == IF k = 1 THEN 0 ELSE before[k - 1] + Size(k - 1)
  IN [k \in DOMAIN ms |->
        [kind |-> ms[k].kind, before |-> before[k], end |-> before[k] + Size(k),
         ends |-> {before[k] + LineEnd[i, ms[k].lines] : i \in 1..Len(ms[k].lines)}
                    \cup {before[k] + Size(k)}]]

\* With a buffer of 12 bytes: messages that are short, that just fit, that do not.
MCScripts == {Place(ms) : ms \in {
  <<Msg("banner", <<6>>), Msg("success", <<3, 3>>), Msg("event", <<4>>), Msg("other", <<3>>)>>,
  <<Msg("banner", <<8>>), Msg("success", <<3, 3>>), Msg("event", <<4, 5>>), Msg("event", <<3>>)>>,
  <<Msg("banner", <<5>>), Msg("success", <<3, 4>>), Msg("event", <<3, 3>>), Msg("reply", <<10>>)>>,
  <<Msg("banner", <<6>>), Msg("refusal", <<3, 3>>)>>}}
=============================================================================
