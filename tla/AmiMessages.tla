---------------------------- MODULE AmiMessages -----------------------------
(* What Asterisk sends on an AMI connection, and where it lies in the stream   *)
(* of bytes: the banner, one line; the answer to the login; then replies and    *)
(* events.  Each of these is some lines and a blank one.                        *)
EXTENDS Naturals, Sequences, FiniteSetsExt

\* An "event" is one that g_process has a handler for.  before is the place of the
\* last byte before the message, ends are the places where one of its lines ends,
\* the blank one included, and end is the last of them.
Kinds == {"banner", "success", "refusal", "reply", "event", "other"}
AmiMessage == [kind : Kinds, before : Nat, ends : SUBSET Nat, end : Nat]

IsAmiStream(sc) ==
  /\ sc \in Seq(AmiMessage) /\ Len(sc) >= 2
  /\ sc[1].kind = "banner" /\ sc[2].kind \in {"success", "refusal"}
  /\ \A k \in DOMAIN sc :
       /\ sc[k].before = IF k = 1 THEN 0 ELSE sc[k - 1].end
       /\ sc[k].end \in sc[k].ends /\ sc[k].ends \subseteq sc[k].before + 2 .. sc[k].end
       /\ k > 1 => sc[k].end - 2 \in sc[k].ends
       /\ sc[k].kind = "banner" => k = 1

\* The text behind the place p ends in \r\n, in \r\n\r\n, at the place q.
LineEnds(sc) == UNION {sc[k].ends : k \in DOMAIN sc}
Terminated(sc, p, q) == q >= p + 4 /\ \E k \in DOMAIN sc : k > 1 /\ sc[k].end = q

\* Where the first message ends that is complete in the text from p on.
NextEnd(sc, p) == {q \in {sc[k].end : k \in DOMAIN sc} :
                     Terminated(sc, p, q) /\ \A r \in p .. q - 1 : ~Terminated(sc, p, r)}
=============================================================================
