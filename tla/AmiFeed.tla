------------------------------ MODULE AmiFeed -------------------------------
(* What the AMI connection promises of the stream of Asterisk (amiproc.cpp 12:   *)
(* "the events that come in are received separated into single messages"),       *)
(* once it is logged in: from the end of some line on, which only the login      *)
(* chooses, the texts are handed over one by one, each up to the end of a        *)
(* message, without a gap; and a message that has arrived is handed over, if it  *)
(* and those before it fit into the buffer.                                      *)
EXTENDS AmiMessages

CONSTANTS Scripts, Buffer

VARIABLES
  script, arrived,
  from,    \* all up to here is done with; 0 before the login is complete
  handed   \* the texts handed over, [first, last]

fvars == <<script, arrived, from, handed>>

Init == script \in Scripts /\ arrived = 0 /\ from = 0 /\ handed = <<>>

Arrive ==
  /\ arrived' \in arrived + 1 .. script[Len(script)].end
  /\ UNCHANGED <<script, from, handed>>

Login ==
  /\ from = 0 /\ from' \in LineEnds(script) \cap script[2].before + 1 .. arrived
  /\ UNCHANGED <<script, arrived, handed>>

Hand ==
  /\ from # 0
  /\ from' \in NextEnd(script, from)
  /\ from' <= arrived /\ from' - from < Buffer
  /\ handed' = Append(handed, [first |-> from + 1, last |-> from'])
  /\ UNCHANGED <<script, arrived>>

Next == Arrive \/ Login \/ Hand

Spec == Init /\ [][Next]_fvars /\ WF_fvars(Hand)
=============================================================================
