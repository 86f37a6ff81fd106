--------------------------------- MODULE Tether ---------------------------------
(***************************************************************************)
(* The tether: the serial link between the core (core/src/main.rs over     *)
(* core/src/link.rs) and the body daemon (tools/body_daemon.py), which     *)
(* serves Model M, the host's limbs, its ear and its lens.                 *)
(*                                                                         *)
(* The core is one thread that asks and waits, and while it waits it takes *)
(* whatever frame comes next.  The daemon serves the core's lines in order *)
(* while its ear and lens threads send frames of their own at any moment.  *)
(* A frame carries no number that says which request it answers; the       *)
(* numbers below are the model's.  Wires are FIFO; what has not arrived    *)
(* yet is on them too, so a wait may end before a frame that is on them.   *)
(***************************************************************************)
EXTENDS Integers, Sequences, SequencesExt, FiniteSets, Selection

CONSTANTS MaxAsks,     \* bound: no new handler starts once so many were made
          MaxSenses    \* bound: frames the ear and the lens send

ASSUME TetherAssumption == MaxAsks \in Nat /\ MaxSenses \in Nat

VARIABLES pc,        \* what the core is doing
          pending,   \* Vec<Pending>, a stack
          result,    \* execute_limb's result: 0, or the action it is of
          toDaemon,  \* lines on their way to the daemon
          toCore,    \* frames on their way to the core
          asks,      \* number of the latest prompt
          acts,      \* number of the latest AX
          taken,     \* the latest answer taken, and for which request
          missed,    \* how many prompts and how many AX got no answer
          senses,    \* how many frames ear and lens have sent
          handled,   \* senses and offers the core has acted upon
          lost,      \* those it has read from the wire and discarded
          gone       \* and those that went with the body or with the wire

requests == <<asks, acts, taken, missed>>
wires == <<toDaemon, toCore>>
fates == <<senses, handled, lost, gone>>
vars == <<pc, pending, result, wires, requests, fates>>

\* The waits of model_m_query, by caller.
Query == {"hello", "wake", "utterance", "grounded", "retry", "dream"}

Frame(tag, n) == [tag |-> tag, n |-> n]
Sensory == {"heard", "saw", "limb"}
Tagged(tags) == [tag : tags, n : Nat]
IsSensory(f) == f.tag \in Sensory
SensoryIn(frames) == {f \in ToSet(frames) : IsSensory(f)}

\* No handler makes more than two prompts.
Room == asks + 2 <= MaxAsks

Init ==
  /\ pc = "off"
  /\ pending = <<>>
  /\ result = 0
  /\ toDaemon = <<>> /\ toCore = <<>>
  /\ asks = 0 /\ acts = 0
  /\ taken = [tag |-> "reply", of |-> 0, for |-> 0]
  /\ missed = [reply |-> 0, result |-> 0]
  /\ senses = 0
  /\ handled = {} /\ lost = {} /\ gone = {}

--------------------------------------------------------------------------------
\* For a mutant: the prompt goes out twice.
AskTwice(caller) ==
  /\ pc' = caller
  /\ asks' = asks + 1
  /\ toDaemon' = toDaemon \o <<Frame("ask", asks + 1), Frame("ask", asks + 1)>>

\* model_m_query sends its prompt and waits.
Ask(caller) ==
  /\ pc' = caller
  /\ asks' = asks + 1
  /\ toDaemon' = Append(toDaemon, Frame(IF caller \in {"hello", "retry"} THEN "hello" ELSE "ask", asks + 1))

Boot ==
  /\ pc = "off"
  /\ Room
  /\ Ask("hello")
  /\ pending' = <<>>
  /\ gone' = gone \cup ToSet(pending)
  /\ UNCHANGED <<result, toCore, acts, taken, missed, senses, handled, lost>>

Take(tag, request) == taken' = [tag |-> tag, of |-> Head(toCore).n, for |-> request]

\* For mutants: a poll that leaves the frame on the wire, and one that keeps
\* offers only.
QueryPeek ==
  /\ pc \in Query
  /\ toCore # <<>>
  /\ IsSensory(Head(toCore))
  /\ pending' = Append(pending, Head(toCore))
  /\ UNCHANGED <<pc, result, wires, requests, fates>>
QueryPollOffers ==
  /\ pc \in Query
  /\ toCore # <<>>
  /\ Head(toCore).tag # "reply"
  /\ toCore' = Tail(toCore)
  /\ LET f == Head(toCore)
     IN /\ pending' = IF f.tag = "limb" THEN Append(pending, f) ELSE pending
        /\ lost' = IF f.tag \in {"heard", "saw"} THEN lost \cup {f} ELSE lost
  /\ UNCHANGED <<pc, result, toDaemon, requests, senses, handled, gone>>

\* One poll of model_m_query that does not end it: what was sensed is kept,
\* a limb's result is taken for a stray one.
QueryPoll ==
  /\ pc \in Query
  /\ toCore # <<>>
  /\ Head(toCore).tag # "reply"
  /\ toCore' = Tail(toCore)
  /\ pending' = IF IsSensory(Head(toCore)) THEN Append(pending, Head(toCore)) ELSE pending
  /\ UNCHANGED <<pc, result, toDaemon, requests, fates>>

\* Any reply is the answer.
Answered ==
  /\ pc \in Query
  /\ toCore # <<>>
  /\ Head(toCore).tag = "reply"
  /\ toCore' = Tail(toCore)
  /\ Take("reply", asks)

AnsweredHello ==
  /\ pc = "hello"
  /\ Answered
  /\ pc' = "window"
  /\ UNCHANGED <<pending, result, toDaemon, asks, acts, missed, fates>>

\* A greeting, words, a refused action, a failed one of the core's own, a
\* report: the handler ends.
AnsweredInWords ==
  /\ pc \in Query \ {"hello"}
  /\ Answered
  /\ pc' = IF pc = "dream" THEN "off" ELSE "loop"
  /\ UNCHANGED <<pending, result, toDaemon, asks, acts, missed, fates>>

\* An action granted through an organ of the core's own (execute_internal).
AnsweredByOwnOrgan ==
  /\ pc = "utterance"
  /\ Answered
  /\ Ask("grounded")
  /\ UNCHANGED <<pending, result, acts, missed, fates>>

\* An action granted through a limb of the host: link::drain discards what
\* has arrived by then, and AX goes out.
AnsweredByLimb ==
  /\ pc = "utterance"
  /\ toCore # <<>>
  /\ Head(toCore).tag = "reply"
  /\ Take("reply", asks)
  /\ \E arrived \in 1 .. Len(toCore) :
       /\ toCore' = SubSeq(toCore, arrived + 1, Len(toCore))
       /\ lost' = lost \cup SensoryIn(SubSeq(toCore, 2, arrived))
  /\ pc' = "act"
  /\ result' = 0
  /\ acts' = acts + 1
  /\ toDaemon' = Append(toDaemon, Frame("act", acts + 1))
  /\ UNCHANGED <<pending, asks, missed, senses, handled, gone>>

\* One poll of execute_limb: any result is the result, and the last one
\* counts; senses are kept; replies and offers are not.
ActPoll ==
  /\ pc = "act"
  /\ toCore # <<>>
  /\ toCore' = Tail(toCore)
  /\ LET f == Head(toCore)
     IN /\ IF f.tag = "result" THEN result' = f.n /\ Take("result", acts)
           ELSE UNCHANGED <<result, taken>>
        /\ pending' = IF f.tag \in {"heard", "saw"} THEN Append(pending, f) ELSE pending
        /\ lost' = IF f.tag = "limb" THEN lost \cup {f} ELSE lost
  /\ UNCHANGED <<pc, toDaemon, asks, acts, missed, senses, handled, gone>>

\* absorb_result: what was done is reported by Model M, what failed is not.
ActEnds ==
  /\ pc = "act"
  /\ result # 0
  /\ Ask("grounded") \/ (pc' = "loop" /\ UNCHANGED <<asks, toDaemon>>)
  /\ UNCHANGED <<pending, result, toCore, acts, taken, missed, fates>>

\* For a mutant: only the queries of the loop have a timeout.
LoopQueryTimeout ==
  /\ pc \in Query \ {"hello", "wake"}
  /\ pc' = IF pc = "dream" THEN "off" ELSE "loop"
  /\ missed' = [missed EXCEPT !.reply = @ + 1]
  /\ UNCHANGED <<pending, result, wires, asks, acts, taken, fates>>

QueryTimeout ==
  /\ pc \in Query
  /\ pc' = IF pc = "dream" THEN "off" ELSE "loop"
  /\ missed' = [missed EXCEPT !.reply = @ + 1]
  /\ UNCHANGED <<pending, result, wires, asks, acts, taken, fates>>

ActTimeout ==
  /\ pc = "act"
  /\ result = 0
  /\ pc' = "loop"
  /\ missed' = [missed EXCEPT !.result = @ + 1]
  /\ UNCHANGED <<pending, result, wires, asks, acts, taken, fates>>

--------------------------------------------------------------------------------
\* The acquisition window of efi_main polls for offers and for nothing else.
WindowPoll ==
  /\ pc = "window"
  /\ toCore # <<>>
  /\ toCore' = Tail(toCore)
  /\ LET f == Head(toCore)
     IN /\ handled' = IF f.tag = "limb" THEN handled \cup {f} ELSE handled
        /\ lost' = IF f.tag \in {"heard", "saw"} THEN lost \cup {f} ELSE lost
  /\ UNCHANGED <<pc, pending, result, toDaemon, requests, senses, gone>>

\* Its end: offers that came during the hello are acquired, and Model M is
\* asked to wake.
WindowEnds ==
  /\ pc = "window"
  /\ Ask("wake")
  /\ pending' = Select(pending, Tagged({"heard", "saw"}))
  /\ handled' = handled \cup ToSet(Select(pending, Tagged({"limb"})))
  /\ UNCHANGED <<result, toCore, acts, taken, missed, senses, lost, gone>>

--------------------------------------------------------------------------------
\* For a mutant: what lies under the latest is forgotten.
PopTopOnly ==
  /\ pc = "loop"
  /\ pending # <<>>
  /\ pending' = <<>>
  /\ handled' = handled \cup {Last(pending)}
  /\ \/ Last(pending).tag = "heard" /\ Room /\ Ask("utterance")
     \/ UNCHANGED <<pc, asks, toDaemon>>
  /\ UNCHANGED <<result, toCore, acts, taken, missed, senses, lost, gone>>

\* run_experience_loop pops what is pending, the latest first.
Pop ==
  /\ pc = "loop"
  /\ pending # <<>>
  /\ pending' = Front(pending)
  /\ handled' = handled \cup {Last(pending)}
  /\ \/ Last(pending).tag = "heard" /\ Room /\ Ask("utterance")
     \/ UNCHANGED <<pc, asks, toDaemon>>    \* no question, or denied by KIRA
  /\ UNCHANGED <<result, toCore, acts, taken, missed, senses, lost, gone>>

\* For a mutant: stray answers are kept with the senses.
PumpAll ==
  /\ pc = "loop"
  /\ pending = <<>>
  /\ toCore # <<>>
  /\ pending' = toCore
  /\ toCore' = <<>>
  /\ UNCHANGED <<pc, result, toDaemon, requests, fates>>

\* A timer event pumps what has arrived; answers are stray ones here.
Pump ==
  /\ pc = "loop"
  /\ pending = <<>>
  /\ \E arrived \in 1 .. Len(toCore) :
       /\ pending' = Select(SubSeq(toCore, 1, arrived), Tagged(Sensory))
       /\ toCore' = SubSeq(toCore, arrived + 1, Len(toCore))
  /\ UNCHANGED <<pc, result, toDaemon, requests, fates>>

\* ENTER on a typed line, F2, or ESC and F5 with a dream to dream.
Key ==
  /\ pc = "loop"
  /\ pending = <<>>
  /\ Room
  /\ \E caller \in {"utterance", "retry", "dream"} : Ask(caller)
  /\ UNCHANGED <<pending, result, toCore, acts, taken, missed, fates>>

--------------------------------------------------------------------------------
\* serve() answers the line that is first: a hello also with an offer.
Answers(line) ==
  CASE line.tag = "hello" -> <<Frame("reply", line.n), Frame("limb", line.n)>>
    [] line.tag = "ask" -> <<Frame("reply", line.n)>>
    [] line.tag = "act" -> <<Frame("result", line.n)>>

\* A prompt of blanks is not answered at all.
Serve ==
  /\ toDaemon # <<>>
  /\ toDaemon' = Tail(toDaemon)
  /\ \/ toCore' = toCore \o Answers(Head(toDaemon))
     \/ Head(toDaemon).tag = "ask" /\ UNCHANGED toCore
  /\ UNCHANGED <<pc, pending, result, requests, fates>>

\* The ear and lens threads send under the daemon's lock, at any time.
Sense ==
  /\ senses < MaxSenses
  /\ senses' = senses + 1
  /\ \E tag \in {"heard", "saw"} : toCore' = Append(toCore, Frame(tag, senses + 1))
  /\ UNCHANGED <<pc, pending, result, toDaemon, requests, handled, lost, gone>>

\* The daemon ends or the socket drops, with what is on the wires.
Drop ==
  /\ toDaemon' = <<>>
  /\ \/ UNCHANGED <<toCore, gone>>
     \/ toCore' = <<>> /\ gone' = gone \cup SensoryIn(toCore)
  /\ UNCHANGED <<pc, pending, result, requests, senses, handled, lost>>

\* ESC or F5 with nothing to dream of, or a loss of power.
PowerOff ==
  /\ pc # "off"
  /\ pc' = "off"
  /\ missed' = IF pc \in Query THEN [missed EXCEPT !.reply = @ + 1]
               ELSE IF pc = "act" /\ result = 0 THEN [missed EXCEPT !.result = @ + 1]
               ELSE missed
  /\ UNCHANGED <<pending, result, wires, asks, acts, taken, fates>>

QueryEnds == AnsweredHello \/ AnsweredInWords \/ AnsweredByOwnOrgan \/ AnsweredByLimb

CoreStep ==
  \/ QueryPoll \/ QueryEnds \/ QueryTimeout
  \/ ActPoll \/ ActEnds \/ ActTimeout
  \/ WindowPoll \/ WindowEnds
  \/ Pop \/ Pump

Next == Boot \/ Key \/ CoreStep \/ PowerOff \/ Serve \/ Sense \/ Drop

\* The core's clock runs and its timer keeps firing.
Fairness == WF_vars(CoreStep)

Spec == Init /\ [][Next]_vars /\ Fairness
--------------------------------------------------------------------------------
Number == 0 .. MaxAsks + MaxSenses
Frames == [tag : Sensory \cup {"reply", "result"}, n : Number]

TypeOK ==
  /\ pc \in Query \cup {"off", "window", "loop", "act"}
  /\ pending \in Seq(Frames) /\ \A i \in DOMAIN pending : IsSensory(pending[i])
  /\ result \in 0 .. acts
  /\ toDaemon \in Seq([tag : {"hello", "ask", "act"}, n : Number])
  /\ toCore \in Seq(Frames)
  /\ asks \in 0 .. MaxAsks /\ acts \in 0 .. asks
  /\ taken \in [tag : {"reply", "result"}, of : Number, for : Number]
  /\ missed \in [reply : Nat, result : Nat]
  /\ senses \in 0 .. MaxSenses
  /\ handled \cup lost \cup gone \subseteq Frames

(***************************************************************************)
(* LagBounded: replies and results carry no number, yet an answer taken    *)
(* was asked for no more requests ago than have timed out or were cut off  *)
(* by a power-off since: with none of these, every answer is to the        *)
(* request in hand (model_m_query, execute_limb).                          *)
(***************************************************************************)
LagBounded == taken.of <= taken.for /\ taken.for - taken.of <= missed[taken.tag]

(***************************************************************************)
(* SensedOnce: whatever has been sensed, and every offer, is in one place  *)
(* only: on the wire, pending, acted upon, or discarded.  The handlers     *)
(* that hand pending on to one another never lose a sense silently and     *)
(* never act upon one twice.                                               *)
(***************************************************************************)
SensedOnce ==
  LET onWire == SensoryIn(toCore)
      kept == ToSet(pending)
      all == onWire \cup kept \cup handled \cup lost \cup gone
  IN /\ Cardinality(onWire) + Cardinality(kept) + Cardinality(handled)
          + Cardinality(lost) + Cardinality(gone) = Cardinality(all)
     /\ Len(pending) = Cardinality(kept)
     /\ {f.n : f \in {g \in all : g.tag # "limb"}} = 1 .. senses

(***************************************************************************)
(* ThinkingKeepsSenses: while it waits for Model M the core discards no    *)
(* sense: it may do so in the acquisition window, in the drain before an   *)
(* AX and, offers only, while it waits for a limb (model_m_query: events   *)
(* "arriving mid-thought are preserved in `pending`, not discarded").      *)
(***************************************************************************)
ThinkingKeepsSenses ==
  [][\A f \in lost' \ lost :
       \/ pc = "window"
       \/ acts' = acts + 1
       \/ pc = "act" /\ f.tag = "limb"]_vars

(***************************************************************************)
(* WaitsEnd: no lost, late or misdirected answer keeps the core waiting.   *)
(***************************************************************************)
WaitsEnd == pc \in Query \cup {"window", "act"} ~> pc \in {"loop", "off"}

SensesIn(frames) == {f.n : f \in {g \in frames : g.tag \in {"heard", "saw"}}}

(***************************************************************************)
(* PendingIsHandled: once the ear and the lens fall silent (they send      *)
(* MaxSenses frames at most), everything that is pending is acted upon if  *)
(* the body stays on: also what lies under later arrivals, which go first, *)
(* through every exchange that handling one of those starts.  It says      *)
(* nothing of arrivals that never stop: each one that comes while the loop *)
(* handles another is pushed on top (run_experience_loop), so what lies    *)
(* at the bottom may then wait for ever.                                   *)
(***************************************************************************)
PendingIsHandled ==
  \A n \in 1 .. MaxSenses :
    n \in SensesIn(ToSet(pending)) ~> (n \in SensesIn(handled) \/ pc = "off")

(***************************************************************************)
(* AnswersMatch: a reply or a result that comes too late is a stray one    *)
(* and dropped, and what the entity reports is what really happened        *)
(* (main.rs, run_experience_loop and absorb_result).                       *)
(***************************************************************************)
AnswersMatch == taken.of = taken.for
================================================================================
