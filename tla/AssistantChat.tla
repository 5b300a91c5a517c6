---------------------------- MODULE AssistantChat ----------------------------
(***************************************************************************)
(* One conversation with the assistant: the messages that are stored, and  *)
(* the websockets that write to it.  A turn stores what the user said,     *)
(* perhaps folds the older messages into a summary, then asks the provider *)
(* in rounds: each answer may announce tool calls, whose results are       *)
(* stored and sent with the next request.                                  *)
(*                                                                         *)
(* One process serves the websockets and calls the database without        *)
(* awaiting, so a step runs from one await (a request to the provider, a   *)
(* frame to the client) to the next one.  At each the turn may be cut off. *)
(***************************************************************************)
EXTENDS AssistantTools, Integers

CONSTANTS
  Sockets,
  Budget,         \* what a request may hold (context_limit_tokens)
  ResultSize,     \* what a tool result takes of it; any other message takes 1
  Keep,           \* _KEEP_VERBATIM_MESSAGES
  MaxRounds,      \* _MAX_TOOL_ROUNDS_PER_TURN
  MaxCalls,       \* _MAX_TOOL_CALLS_PER_TURN
  CallsPerReply,  \* calls a provider announces at once (bound of the model)
  MaxStored       \* no turn begins beyond so many messages (bound of the model)

ASSUME ChatAssumption ==
  /\ {Budget, ResultSize, Keep, MaxRounds, MaxCalls} \subseteq Nat \ {0}
  /\ {CallsPerReply, MaxStored} \subseteq Nat

VARIABLES
  stored,       \* the messages of the conversation, by their sequence
  summarised,   \* how many of the oldest the summary stands for
  pc,           \* where the turn of a socket stands
  turn,         \* what it keeps in its local variables
  torn          \* why what is stored may be illegal: an announced call was
                \* left without its result, or two turns ran at once

chatVars == <<stored, summarised, pc, turn, torn>>

\* "sound" remembers that the conversation was legal when it was replayed.
Idle == [history |-> << >>, sound |-> FALSE, request |-> 0, known |-> 0, fold |-> 0,
         round |-> 0, made |-> 0, announced |-> 0, calls |-> 0, next |-> 0]

ChatInit ==
  /\ stored = << >> /\ summarised = 0
  /\ pc = [s \in Sockets |-> "closed"]
  /\ turn = [s \in Sockets |-> Idle]
  /\ torn = FALSE

InTurn == {"compacting", "asking", "calling"}

-----------------------------------------------------------------------------
(* What is sent                                                            *)

Cost(msgs) ==
  Len(msgs) + (ResultSize - 1) * Cardinality({i \in DOMAIN msgs : msgs[i].role = "tool"})

\* The newest messages that fit
Newest(msgs, room) ==
  LET fits == {k \in 0..Len(msgs) : Cost(SubSeq(msgs, Len(msgs) - k + 1, Len(msgs))) <= room}
      most == IF fits = {} THEN 0 ELSE CHOOSE k \in fits : \A j \in fits : j <= k
  IN  SubSeq(msgs, Len(msgs) - most + 1, Len(msgs))

DropLeadingOrphan(msgs) ==
  LET spoken == {i \in DOMAIN msgs : msgs[i].role # "tool"}
  IN  IF spoken = {} THEN << >>
      ELSE SubSeq(msgs, CHOOSE i \in spoken : \A j \in spoken : i <= j, Len(msgs))

\* Where the leading system messages end, and where the newest question is
Pinned(msgs) ==
  CHOOSE p \in 0..Len(msgs) : /\ \A i \in 1..p : msgs[i].role = "system"
                              /\ p < Len(msgs) => msgs[p + 1].role # "system"
RequestAt(msgs) ==
  LET asked == {i \in DOMAIN msgs : msgs[i].role = "user"}
  IN  IF asked = {} THEN Len(msgs) ELSE CHOOSE i \in asked : \A j \in asked : j <= i

\* Mutated form: the newest messages that fit, whatever was asked.
Trim_Newest(msgs) ==
  LET p == Pinned(msgs)
  IN  SubSeq(msgs, 1, p)
        \o DropLeadingOrphan(Newest(SubSeq(msgs, p + 1, Len(msgs)), Budget - p))

\* Mutated form: a window may open on a result.
Trim_Orphans(msgs) ==
  LET p == Pinned(msgs)
      r == RequestAt(msgs)
  IN  SubSeq(msgs, 1, p) \o <<msgs[r]>>
        \o Newest(SubSeq(msgs, r + 1, Len(msgs)), Budget - p)

\* _trim_to_context_limit: the system messages and the question always stay,
\* then what this turn did, then the turns before it.
Trim(msgs) ==
  LET p == Pinned(msgs)
      r == RequestAt(msgs)
      used == Cost(SubSeq(msgs, 1, p)) + 1
      room(n) == IF used + n > Budget THEN 0 ELSE Budget - used - n
      work == SubSeq(msgs, r + 1, Len(msgs))
      kept == DropLeadingOrphan(Newest(work, room(0)))
      earlier == IF kept # work THEN << >>
                 ELSE DropLeadingOrphan(Newest(SubSeq(msgs, p + 1, r - 1), room(Cost(work))))
  IN  IF p = Len(msgs) THEN msgs
      ELSE SubSeq(msgs, 1, p) \o earlier \o <<msgs[r]>> \o kept

\* _build_history: instructions, the summary if there is one, and the rest
Build(msgs, n) ==
  <<SystemMessage>> \o (IF n > 0 THEN <<SystemMessage>> ELSE << >>)
    \o SubSeq(msgs, n + 1, Len(msgs))

\* What _compact asks the summary with: its instructions, the summary so far,
\* all that is to be folded from the first message on, and the word to write it.
SummaryRequest(msgs, n, fold) ==
  Trim(<<SystemMessage>> \o (IF n > 0 THEN <<SystemMessage>> ELSE << >>)
         \o SubSeq(msgs, 1, fold) \o <<UserMessage(0)>>)

\* 0.8 of the budget
NeedsCompaction(msgs, n) == Cost(Build(msgs, n)) * 10 > Budget * 8

-----------------------------------------------------------------------------
(* The websocket                                                           *)

\* A client connects, also again: the conversation is still there.
Open(s) ==
  /\ pc[s] = "closed" /\ pc' = [pc EXCEPT ![s] = "idle"]
  /\ UNCHANGED <<stored, summarised, turn, torn>>

\* A turn ends, where the websocket stays and where it does not.  Calls that
\* were announced and have no result stay so.
Leave(s, to) ==
  /\ pc' = [pc EXCEPT ![s] = to]
  /\ turn' = [turn EXCEPT ![s] = Idle]
  /\ torn' = (torn \/ pc[s] = "calling")

\* The first request of a turn is built from what is stored now.
Begin(s, msgs, n, request) ==
  /\ pc' = [pc EXCEPT ![s] = "asking"]
  /\ turn' = [turn EXCEPT ![s] = [Idle EXCEPT
       !.history = Trim(Build(msgs, n)), !.request = request,
       !.sound = Legal(DropLeadingOrphan(SubSeq(msgs, n + 1, Len(msgs))))]]

\* A summary is asked for of all but the newest messages.
Summarise(s, to, msgs, request) ==
  LET fold == Len(msgs) - Keep
  IN  /\ pc' = [pc EXCEPT ![s] = to]
      /\ turn' = [turn EXCEPT ![s] = [Idle EXCEPT
           !.history = SummaryRequest(msgs, summarised, fold), !.sound = Legal(msgs),
           !.request = request, !.known = summarised, !.fold = fold]]

UserMessageArrives(s) ==
  LET msgs == Append(stored, UserMessage(Len(stored) + 1))
  IN  /\ pc[s] = "idle" /\ Len(stored) < MaxStored
      /\ stored' = msgs
      /\ IF NeedsCompaction(msgs, summarised) /\ Len(msgs) - Keep > summarised
         THEN Summarise(s, "compacting", msgs, Len(msgs))
         ELSE Begin(s, msgs, summarised, Len(msgs))
      /\ torn' = (torn \/ \E t \in Sockets : t # s /\ pc[t] \in InTurn)
      /\ UNCHANGED summarised

\* The operator's own /compact, if there is something to fold
CompactRequested(s) ==
  /\ pc[s] = "idle" /\ Len(stored) - Keep > summarised
  /\ Summarise(s, "folding", stored, 0)
  /\ UNCHANGED <<stored, summarised, torn>>

\* Mutated form: an empty summary is asked for again, of fewer messages, and
\* from the start when none are left.
Folded_Again(s) ==
  /\ pc[s] = "compacting"
  /\ \/ summarised' = turn[s].fold /\ Begin(s, stored, turn[s].fold, turn[s].request)
     \/ /\ turn' = [turn EXCEPT ![s].fold =
                     IF @ > turn[s].known + 1 THEN @ - 1 ELSE Len(stored) - Keep]
        /\ UNCHANGED <<summarised, pc>>
  /\ UNCHANGED <<stored, torn>>

\* The provider's summary stands for the messages that were there when it was
\* asked for; an empty one changes nothing.
Folded(s) ==
  /\ \/ /\ pc[s] = "compacting"
        /\ \/ summarised' = turn[s].fold /\ Begin(s, stored, turn[s].fold, turn[s].request)
           \/ UNCHANGED summarised /\ Begin(s, stored, turn[s].known, turn[s].request)
     \/ /\ pc[s] = "folding"
        /\ summarised' \in {turn[s].fold, summarised}
        /\ pc' = [pc EXCEPT ![s] = "idle"]
        /\ turn' = [turn EXCEPT ![s] = Idle]
  /\ UNCHANGED <<stored, torn>>

-----------------------------------------------------------------------------
(* Rounds                                                                  *)

\* The next round; the last one tells the model that it has to answer.
NextRound(t) ==
  LET final == t.round + 1 = MaxRounds
      history == IF final THEN Append(t.history, SystemMessage) ELSE t.history
  IN  [t EXCEPT !.round = @ + 1, !.history = Trim(history)]

\* Mutated form: an answer without text is not stored.
Replied_TextOnly(s) ==
  /\ pc[s] = "asking"
  /\ \E text \in BOOLEAN, n \in 0..CallsPerReply :
       LET reply == Reply(Len(stored) + 1, n)
       IN  /\ stored' = IF text THEN Append(stored, reply) ELSE stored
           /\ IF n = 0 THEN pc' = [pc EXCEPT ![s] = "idle"] /\ turn' = [turn EXCEPT ![s] = Idle]
              ELSE /\ pc' = [pc EXCEPT ![s] = "calling"]
                   /\ turn' = [turn EXCEPT ![s] = [turn[s] EXCEPT
                        !.history = Append(@, reply), !.announced = reply.at, !.calls = n,
                        !.next = 1]]
  /\ UNCHANGED <<summarised, torn>>

\* The provider answered with text, with calls, with both or with nothing.
Replied(s) ==
  /\ pc[s] = "asking"
  /\ \E text \in BOOLEAN, n \in 0..CallsPerReply :
       LET reply == Reply(Len(stored) + 1, n)
       IN  /\ stored' = IF text \/ n > 0 THEN Append(stored, reply) ELSE stored
           /\ IF n = 0 THEN pc' = [pc EXCEPT ![s] = "idle"] /\ turn' = [turn EXCEPT ![s] = Idle]
              ELSE /\ pc' = [pc EXCEPT ![s] = "calling"]
                   /\ turn' = [turn EXCEPT ![s] = [turn[s] EXCEPT
                        !.history = Append(@, reply), !.announced = reply.at, !.calls = n,
                        !.next = 1]]
  /\ UNCHANGED <<summarised, torn>>

\* A call was dispatched and its result stored; after the last one comes the
\* next round, or the end of the turn.
Answer(s) ==
  LET t == turn[s]
      result == ToolResult(Len(stored) + 1, t.announced, t.next)
      after == [t EXCEPT !.made = @ + 1, !.next = @ + 1, !.history = Append(@, result)]
  IN  /\ stored' = Append(stored, result)
      /\ \/ /\ t.next < t.calls
            /\ turn' = [turn EXCEPT ![s] = after] /\ UNCHANGED pc
         \/ /\ t.next = t.calls /\ t.round < MaxRounds
            /\ turn' = [turn EXCEPT ![s] = NextRound(after)] /\ pc' = [pc EXCEPT ![s] = "asking"]
         \/ /\ t.next = t.calls /\ t.round = MaxRounds
            /\ turn' = [turn EXCEPT ![s] = Idle] /\ pc' = [pc EXCEPT ![s] = "idle"]
      /\ UNCHANGED torn

\* What the tool makes of the call decides; beyond the limit on calls the turn
\* is over at once.
Called(s) ==
  /\ pc[s] = "calling"
  /\ \/ /\ \/ turn[s].made = MaxCalls
           \/ "app error" \in Outcomes
        /\ Leave(s, "idle") /\ UNCHANGED stored
     \/ /\ turn[s].made < MaxCalls /\ "fault" \in Outcomes
        /\ Leave(s, "closed") /\ UNCHANGED stored
     \/ /\ turn[s].made < MaxCalls
        /\ Outcomes \cap {"result", "error result", "plan"} # {} /\ Answer(s)
  /\ UNCHANGED summarised

\* The provider fails, or a frame finds no client.  A failed connection is
\* reported to the client, a faulty answer ends the websocket.
CutOff(s) ==
  /\ \/ pc[s] \in {"compacting", "folding", "asking"} /\ Leave(s, "idle")
     \/ pc[s] # "closed" /\ Leave(s, "closed")
  /\ UNCHANGED <<stored, summarised>>

Turn(s) == Folded(s) \/ Replied(s) \/ Called(s)

ChatNext == \E s \in Sockets :
  Open(s) \/ UserMessageArrives(s) \/ CompactRequested(s) \/ Turn(s) \/ CutOff(s)

ChatSpec == ChatInit /\ [][ChatNext]_chatVars

\* The provider answers or fails, within the timeouts of its client, and the
\* tools return.
ChatFairness == \A s \in Sockets : WF_chatVars(Turn(s))

-----------------------------------------------------------------------------
(* Properties                                                              *)

\* Where a summary is asked for
Folding == {"compacting", "folding"}

\* What is folded ends between an announcement that is sent and its results.
Divided(t) ==
  \E i \in DOMAIN t.history : /\ t.history[i].role = "assistant"
                              /\ t.history[i].at + t.history[i].calls > t.fold

\* A request from a conversation that kept a contract keeps it, but for a
\* summary of one that is divided, which never does.
KeepsTo(s, kept) ==
  turn[s].sound => /\ pc[s] = "asking" => kept
                   /\ pc[s] \in Folding => (kept <=> ~Divided(turn[s]))

\* The requests of a turn keep the contract of the chat APIs, however much of
\* the conversation was left out for them or folded away.  A request for a
\* summary breaks it where _compact divides an announcement, and only there.
WindowsAreLegal == \A s \in Sockets : KeepsTo(s, Legal(turn[s].history))

\* So it is with the contract of Anthropic, once they are translated.
BlocksAreLegal == \A s \in Sockets : KeepsTo(s, LegalBlocks(Spoken(turn[s].history)))

\* What is stored keeps it between the turns, unless two turns ran at once or
\* one was left before the calls it had announced were answered.
StoredIsLegal ==
  ~torn /\ (\A s \in Sockets : pc[s] \notin InTurn) => Legal(stored)

\* No request leaves the question out that it is to answer, and none is larger
\* than the budget unless the question and what is always sent are.
QuestionIsSent ==
  \A s \in Sockets : LET msgs == turn[s].history IN
    /\ pc[s] = "asking" /\ ~torn =>
         \E i \in DOMAIN msgs : msgs[i].role = "user" /\ msgs[i].at = turn[s].request
    /\ pc[s] \in Folding \cup {"asking"} =>
         Cost(msgs) <= Budget \/ Len(msgs) = Pinned(msgs) + 1

\* Every turn comes to an end, whatever the model calls.
TurnsEnd == \A s \in Sockets : pc[s] \in InTurn ~> pc[s] \notin InTurn
=============================================================================
