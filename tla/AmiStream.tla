----------------------------- MODULE AmiStream ------------------------------
(* The bytes of the AMI connection: amiLogin reads the banner and the answer     *)
(* (amiaction.cpp 59-132), then ami_event separates the stream into messages     *)
(* (amiproc.cpp 201-343), and the AsyncThreadPool runs process_events            *)
(* (390-409).                                                                    *)
(*                                                                               *)
(* A byte is its place in the stream.  rdata.s holds the bytes from base + 1 to  *)
(* rpos, so com_len is their number.  AmiLogin has how the connection comes      *)
(* about and is lost, AmiSync what a reply does.                                 *)
EXTENDS AmiMessages

CONSTANTS
  Scripts,   \* the streams Asterisk may send
  Buffer,    \* s_len
  MinLogin,  \* the bytes amiLogin waits for, 22
  Atps       \* the threads of the AsyncThreadPool

ASSUME StreamConstants ==
  /\ Buffer \in Nat \ 0..4 /\ MinLogin \in 1..Buffer
  /\ \A sc \in Scripts : IsAmiStream(sc) /\ sc[1].end >= MinLogin
  /\ IsFiniteSet(Atps) /\ Atps # {}

VARIABLES
  script, arrived,     \* the stream, the bytes the kernel has received
  rpos, base,          \* the bytes read, the bytes before rdata.s
  checked_len,
  pc,                  \* "banner", "answer": amiLogin; "armed", "job": the pool
  handed,              \* the texts ami_event has completed
  queue, job, handled  \* the AsyncThreadPool: queue, threads, handlers that were called

input == <<script, arrived>>
atp   == <<queue, job, handled>>
vars  == <<input, rpos, base, checked_len, pc, handed, atp>>

Idle == [first |-> 0, last |-> 0]

Init ==
  /\ script \in Scripts /\ arrived = 0
  /\ rpos = 0 /\ base = 0 /\ checked_len = 0
  /\ pc = "banner" /\ handed = <<>>
  /\ queue = <<>> /\ job = [t \in Atps |-> Idle] /\ handled = {}

com_len == rpos - base
Banner == script[1]
Answer == script[2]
Limit  == script[Len(script)].end

----------------------------------------------------------------------------
(* Asterisk answers once the login action has been written; a refusal is the     *)
(* last it sends.                                                                *)
Arrive ==
  /\ pc # "overflow"
  /\ arrived' \in arrived + 1 .. CASE pc = "banner" -> Banner.end
                                   [] OTHER -> IF Answer.kind = "refusal" THEN Answer.end
                                               ELSE Limit
  /\ UNCHANGED <<script, rpos, base, checked_len, pc, handed, atp>>

----------------------------------------------------------------------------
(* amiLogin: one round of the loop.  It reads all there is.                      *)

\* What it has after the read; beyond the buffer it writes over other memory.
Got == arrived - base
LoginRead ==
  /\ pc \in {"banner", "answer"} /\ Got <= Buffer
  /\ checked_len' = arrived - rpos

\* More than the buffer takes: read() is not told its size.
LoginOverflow ==
  /\ pc \in {"banner", "answer"} /\ Got > Buffer
  /\ pc' = "overflow"
  /\ UNCHANGED <<input, rpos, base, checked_len, handed, atp>>

\* Fewer than 22 bytes: another try after ten milliseconds, or the last one.
LoginShort ==
  /\ LoginRead /\ Got < MinLogin
  /\ rpos' = arrived /\ pc' \in {pc, "failed"}
  /\ UNCHANGED <<input, base, handed, atp>>

\* The banner: the action is written and the buffer reset.
LoginBanner ==
  /\ LoginRead /\ pc = "banner" /\ Got >= MinLogin
  /\ rpos' = arrived /\ base' = arrived /\ pc' = "answer"
  /\ UNCHANGED <<input, handed, atp>>

\* No \r\n at the end: round again, at once.
LoginPartial ==
  /\ LoginRead /\ pc = "answer" /\ Got >= MinLogin /\ arrived \notin LineEnds(script)
  /\ rpos' = arrived
  /\ UNCHANGED <<input, base, pc, handed, atp>>

\* The text is copied onto the stack without a \0 behind it, so that parse_amievent
\* runs on into what is left there.  Its own fields come first: the first key is
\* Response if the text begins with the answer, and with a rest of the banner before
\* it there is another one, which is neither success nor failure.  The rest of the
\* banner alone has no colon: whether there is a key then is a matter of what is left
\* on the stack, and without one the login fails.  (That this has fewer fields than
\* the arrays of AMI_EVENTS have places is assumed.)
Outcomes ==
  CASE base = Answer.before  -> IF Answer.kind = "success" THEN {"armed"} ELSE {"failed"}
    [] arrived = Answer.before -> {"answer", "failed"}
    [] OTHER                 -> {"answer"}

\* Variation: success wants the blank line too.
LoginAnswerWhole ==
  /\ LoginRead /\ pc = "answer" /\ Got >= MinLogin /\ arrived \in LineEnds(script)
  /\ rpos' = arrived /\ base' = arrived
  /\ pc' \in IF "armed" \in Outcomes /\ arrived # Answer.end THEN {"answer"} ELSE Outcomes
  /\ UNCHANGED <<input, handed, atp>>

\* The text is parsed and dropped.
LoginAnswer ==
  /\ LoginRead /\ pc = "answer" /\ Got >= MinLogin /\ arrived \in LineEnds(script)
  /\ rpos' = arrived /\ base' = arrived
  /\ pc' \in Outcomes
  /\ UNCHANGED <<input, handed, atp>>

Login == LoginOverflow \/ LoginShort \/ LoginBanner \/ LoginPartial \/ LoginAnswer

----------------------------------------------------------------------------
(* The pool and ami_event.                                                       *)

\* The main thread takes the event and asks how much there is.
Event ==
  /\ pc = "armed" /\ arrived > rpos
  /\ pc' = "job" /\ checked_len' = arrived - rpos
  /\ UNCHANGED <<input, rpos, base, handed, atp>>

\* Variation: no byte is left for the \0.
RoomAll == Buffer - com_len

Room == Buffer - com_len - 1

\* The loop reads single bytes and stops behind \r\n\r\n.
Reach == rpos + Min({Room, checked_len})

Stops == {q \in rpos .. Reach : Terminated(script, base, q)}

\* The message whose name ami_event and process_events find behind the first colon
\* of the text: the text begins with it, or with the blank line before it.
Named(text) ==
  {m \in {script[k] : k \in DOMAIN script} : text.first - 1 \in {m.before, m.before - 2}}

\* Nothing complete: tst_suspend.
AmiPart ==
  /\ pc = "job" /\ Stops = {}
  /\ rpos' = Reach /\ pc' = "armed"
  /\ UNCHANGED <<input, base, checked_len, handed, atp>>

\* Variation: reset_data is left out where no handler is registered.
AmiMessageKept ==
  /\ pc = "job" /\ Stops # {}
  /\ LET text == [first |-> base + 1, last |-> Min(Stops)]
         registered == \E m \in Named(text) : m.kind = "event"
     IN /\ rpos' = text.last
        /\ base' = IF registered THEN text.last ELSE base
        /\ handed' = Append(handed, text)
        /\ queue' = IF registered THEN Append(queue, text) ELSE queue
  /\ pc' = "armed"
  /\ UNCHANGED <<input, checked_len, job, handled>>

\* A message: a copy goes to the AsyncThreadPool if there is a handler, and
\* reset_data.
AmiWhole ==
  /\ pc = "job" /\ Stops # {}
  /\ LET text == [first |-> base + 1, last |-> Min(Stops)]
     IN /\ rpos' = text.last /\ base' = text.last
        /\ handed' = Append(handed, text)
        /\ queue' = IF \E m \in Named(text) : m.kind = "event" THEN Append(queue, text)
                    ELSE queue
  /\ pc' = "armed"
  /\ UNCHANGED <<input, checked_len, job, handled>>

----------------------------------------------------------------------------
(* The AsyncThreadPool, in t: process_events on a copy.                          *)

AtpTake(t) ==
  /\ job[t] = Idle /\ queue # <<>>
  /\ job' = [job EXCEPT ![t] = Head(queue)] /\ queue' = Tail(queue)
  /\ UNCHANGED <<input, rpos, base, checked_len, pc, handed, handled>>

\* Variation: the name is that of the first key only.
process_eventsExact(t) ==
  /\ job[t] # Idle
  /\ handled' = handled \cup {m \in Named(job[t]) : m.before = job[t].first - 1}
  /\ job' = [job EXCEPT ![t] = Idle]
  /\ UNCHANGED <<input, rpos, base, checked_len, pc, handed, queue>>

process_events(t) ==
  /\ job[t] # Idle
  /\ handled' = handled \cup {m \in Named(job[t]) : m.kind = "event"}
  /\ job' = [job EXCEPT ![t] = Idle]
  /\ UNCHANGED <<input, rpos, base, checked_len, pc, handed, queue>>

----------------------------------------------------------------------------
Next ==
  \/ Arrive \/ Login \/ Event \/ AmiPart \/ AmiWhole
  \/ \E t \in Atps : AtpTake(t) \/ process_events(t)

\* The threads run; Asterisk need not send anything.
Fairness ==
  /\ WF_vars(Login) /\ WF_vars(Event) /\ WF_vars(AmiPart \/ AmiWhole)
  /\ \A t \in Atps : WF_vars(AtpTake(t) \/ process_events(t))

FairSpec == Init /\ [][Next]_vars /\ Fairness

----------------------------------------------------------------------------
(* Properties.                                                                   *)

\* Nothing is read that has not arrived, and rdata.s always has a place for the \0
\* that ends a text, whatever the login left there.  Only amiLogin, which gives
\* read() no limit, can write behind the buffer, if Asterisk has sent more than it
\* takes (amiaction.cpp 60-64, amiproc.cpp 225-259).
TextFits ==
  /\ base <= rpos /\ rpos <= arrived
  /\ pc \in {"armed", "job"} => com_len < Buffer
  /\ pc = "overflow" => arrived > Buffer

\* The connection does what AmiFeed promises, whatever TCP does to the stream: only
\* the first text can be other than a single whole message, and only if the login,
\* which reads whatever has come, ended between two lines of one (amiaction.cpp
\* 60-98); and every text begins with a line, so that ami_event finds the colon it
\* does not check for (amiproc.cpp 225-254, 312-343).
Feed == INSTANCE AmiFeed WITH from <- IF pc \in {"armed", "job"} THEN base ELSE 0
FeedsTheEvents == Feed!Spec

\* A login that Asterisk accepts is noticed, provided the banner was read as a whole
\* and the bytes there are end in a line (amiaction.cpp 60-132).
LoginIsNoticed ==
  pc = "answer" /\ base = Answer.before /\ arrived >= Answer.end /\ Answer.kind = "success"
    ~> pc \in {"armed", "overflow"} \/ arrived \notin LineEnds(script)

\* An event that has a handler and that ami_event has separated, even with the
\* blank line of the answer before it, reaches the handler (amiproc.cpp 328-339,
\* 390-405).
EventsReachHandlers ==
  \A k \in UNION {DOMAIN sc : sc \in Scripts} :
    (k \in DOMAIN script /\ script[k].kind = "event"
       /\ \E i \in DOMAIN handed : handed[i].last = script[k].end
                                   /\ handed[i].first <= script[k].before + 1)
      ~> k \in DOMAIN script /\ script[k] \in handled
=============================================================================
