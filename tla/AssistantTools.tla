---------------------------- MODULE AssistantTools ----------------------------
(***************************************************************************)
(* The tools a model may call: what becomes of a call, and how a           *)
(* conversation is translated for a provider with another wire format.     *)
(* Pure operators.                                                         *)
(***************************************************************************)
EXTENDS Naturals, Sequences, FiniteSets

(* Calls                                                                   *)

NetworkTools == {"list_devices", "get_topology", "list_change_plans"}
LimitedTools == {"list_config_snapshots", "list_device_events"}
DeviceTools  == LimitedTools \cup {"get_device_facts", "get_device_interfaces",
                                   "get_device_neighbors"}
Proposal == "propose_change_plan"

\* What a model passes: a device_id, a limit, and for a proposal whether the
\* other arguments are there and the change is one the pipeline accepts.
Arguments == [device : {"none", "not a uuid", "unknown", "known"},
              limit : {"none", "a number", "not a number"},
              change : {"malformed", "refused", "drafted"}]

\* A tool that reads one device; the events of an unknown one are none.
DeviceRead(tool, args) ==
  CASE args.device \in {"none", "not a uuid"} -> "error result"
    [] args.device \in {"unknown", "known"} /\ tool \in LimitedTools
       /\ args.limit = "not a number" -> "fault"
    [] args.device = "unknown" /\ tool # "list_device_events"
       /\ (tool \in LimitedTools => args.limit # "not a number") -> "app error"
    [] OTHER -> "result"

\* A tool that reads the whole network; an unreadable limit is the default one
NetworkRead(tool, args) ==
  IF tool = "list_change_plans" /\ args.device = "not a uuid" THEN "error result" ELSE "result"

\* Every failure of a proposal is a result the model reads.
Propose(args) ==
  IF args.device \in {"none", "not a uuid", "unknown"} \/ args.change # "drafted"
  THEN "error result" ELSE "plan"

\* "result", "error result" and "plan" are stored; an "app error" ends the
\* turn, any other exception (a "fault") the websocket.
Dispatch(tool, args) ==
  CASE tool \in NetworkTools -> NetworkRead(tool, args)
    [] tool \in DeviceTools  -> DeviceRead(tool, args)
    [] tool = Proposal       -> Propose(args)
    [] OTHER -> "error result"   \* a name the model made up

Outcomes == {Dispatch(tool, args) :
               tool \in NetworkTools \cup DeviceTools \cup {Proposal, "made up"},
               args \in Arguments}

-----------------------------------------------------------------------------
(* Conversations                                                           *)

\* A message as it is replayed.  "at" is its place in the stored conversation
\* (0 for a system message), "calls" how many calls an assistant turn
\* announced, "of" and "call" which of them a tool message answers.
SystemMessage      == [role |-> "system", at |-> 0, calls |-> 0, of |-> 0, call |-> 0]
UserMessage(at)    == [SystemMessage EXCEPT !.role = "user", !.at = at]
Reply(at, n)       == [SystemMessage EXCEPT !.role = "assistant", !.at = at, !.calls = n]
ToolResult(at, of, k) ==
  [SystemMessage EXCEPT !.role = "tool", !.at = at, !.of = of, !.call = k]

\* The contract of the chat APIs: the results of the calls a turn announced
\* are what follows it, and no result comes without its announcement.
Answered(msgs, i) ==
  /\ i + msgs[i].calls <= Len(msgs)
  /\ \A k \in 1..msgs[i].calls :
       msgs[i + k].role = "tool" /\ msgs[i + k].of = msgs[i].at /\ msgs[i + k].call = k
Announced(msgs, i) ==
  \E j \in 1..(i - 1) : /\ msgs[j].role = "assistant" /\ msgs[j].at = msgs[i].of
                        /\ \A m \in (j + 1)..i : msgs[m].role = "tool"
Legal(msgs) == \A i \in DOMAIN msgs : /\ msgs[i].role = "assistant" => Answered(msgs, i)
                                      /\ msgs[i].role = "tool" => Announced(msgs, i)

\* The messages without the system ones, in their order.
Spoken(msgs) ==
  LET said == {i \in DOMAIN msgs : msgs[i].role # "system"}
      Place(k) == CHOOSE i \in said : Cardinality({j \in said : j <= i}) = k
  IN  [k \in 1..Cardinality(said) |-> msgs[Place(k)]]

\* Mutated form: every result is a turn of its own.
Heads_Single(msgs) == DOMAIN msgs

\* Where a turn of the translation begins: results that follow each other are
\* one turn.
Heads(msgs) ==
  {i \in DOMAIN msgs : i = 1 \/ msgs[i].role # "tool" \/ msgs[i - 1].role # "tool"}

\* The messages of the turn that begins at a head
TurnOf(msgs, h) == {j \in h..Len(msgs) : \A k \in (h + 1)..j : k \notin Heads(msgs)}

\* Anthropic's contract, on the messages without the system ones: a turn that
\* uses tools is answered by the next turn, with every result in it.
LegalBlocks(msgs) ==
  \A i \in DOMAIN msgs :
    msgs[i].role = "assistant" /\ msgs[i].calls > 0 =>
      /\ i + 1 \in DOMAIN msgs /\ msgs[i + 1].role = "tool"
      /\ {msgs[j].call : j \in TurnOf(msgs, i + 1)} = 1..msgs[i].calls
=============================================================================
