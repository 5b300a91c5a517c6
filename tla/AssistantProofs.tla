--------------------------- MODULE AssistantProofs ---------------------------
(***************************************************************************)
(* What TLAPS proves of the assistant: of AssistantChat for any number of  *)
(* websockets and any budget, that a conversation that is stored, and      *)
(* every window of it that a turn sends, keeps the contract of the chat    *)
(* APIs, and a request for a summary exactly unless it divides an          *)
(* announcement from its results; and of AutoApply for any number of       *)
(* requests, that no more automatic applies exceed the allowance than      *)
(* escaped the count.                                                      *)
(***************************************************************************)
EXTENDS AssistantChat, AutoApply, SequenceLemmas

Roles == {"system", "user", "assistant", "tool"}
Messages == [role : Roles, at : Nat, calls : Nat, of : Nat, call : Nat]

\* s is what c holds after its first o messages.
Window(s, c, o) ==
  /\ s \in Seq(Messages) /\ c \in Seq(Messages) /\ o \in Nat
  /\ o + Len(s) <= Len(c)
  /\ \A x \in 1..Len(s) : s[x] = c[x + o]

-----------------------------------------------------------------------------
(* Messages and windows.                                                   *)

\* What the chat writes is a message.
LEMMA MessagesAre ==
  ASSUME NEW place \in Nat, NEW n \in Nat, NEW of \in Nat, NEW k \in Nat
  PROVE  /\ SystemMessage \in Messages /\ SystemMessage.role = "system"
         /\ UserMessage(place) \in Messages /\ UserMessage(place).role = "user"
         /\ UserMessage(place).at = place
         /\ Reply(place, n) \in Messages /\ Reply(place, n).role = "assistant"
         /\ Reply(place, n).at = place /\ Reply(place, n).calls = n
         /\ ToolResult(place, of, k) \in Messages /\ ToolResult(place, of, k).role = "tool"
         /\ ToolResult(place, of, k).at = place /\ ToolResult(place, of, k).of = of
         /\ ToolResult(place, of, k).call = k
BY DEF SystemMessage, UserMessage, Reply, ToolResult, Messages, Roles

\* The messages of a sequence, by their positions.
LEMMA PositionsAre ==
  ASSUME NEW msgs \in Seq(Messages)
  PROVE  /\ Len(msgs) \in Nat /\ DOMAIN msgs = 1..Len(msgs)
         /\ \A i \in 1..Len(msgs) :
              /\ msgs[i] \in Messages /\ msgs[i].calls \in Nat /\ msgs[i].at \in Nat
              /\ msgs[i].role \in Roles
<1>1. Len(msgs) \in Nat /\ DOMAIN msgs = 1..Len(msgs)  OBVIOUS
<1>2. \A i \in 1..Len(msgs) : msgs[i] \in Messages  OBVIOUS
<1> QED  BY <1>1, <1>2 DEF Messages

\* A turn that is answered in a window is answered in the whole.
LEMMA AnsweredInTheWhole ==
  ASSUME NEW s, NEW c, NEW o, Window(s, c, o), NEW x \in 1..Len(s), Answered(s, x)
  PROVE  Answered(c, x + o)
<1>1. /\ Len(s) \in Nat /\ Len(c) \in Nat /\ o \in Nat /\ s[x].calls \in Nat
      /\ s[x] = c[x + o] /\ o + Len(s) <= Len(c)
  BY PositionsAre DEF Window
<1>2. x + s[x].calls <= Len(s)  BY DEF Answered
<1>3. ASSUME NEW k \in 1..s[x].calls
      PROVE  c[x + o + k].role = "tool" /\ c[x + o + k].of = s[x].at /\ c[x + o + k].call = k
  <2>1. x + k \in 1..Len(s) /\ (x + k) + o = x + o + k  BY <1>1, <1>2
  <2>2. s[x + k] = c[(x + k) + o]  BY <2>1 DEF Window
  <2> QED  BY <2>1, <2>2 DEF Answered
<1>4. x + o + c[x + o].calls <= Len(c)  BY <1>1, <1>2
<1> QED  BY <1>1, <1>3, <1>4 DEF Answered

\* And the other way round, if its results are in the window.
LEMMA AnsweredInTheWindow ==
  ASSUME NEW s, NEW c, NEW o, Window(s, c, o), NEW x \in 1..Len(s), Answered(c, x + o),
         x + s[x].calls <= Len(s)
  PROVE  Answered(s, x)
<1>1. /\ Len(s) \in Nat /\ o \in Nat /\ s[x].calls \in Nat /\ s[x] = c[x + o]
  BY PositionsAre DEF Window
<1>2. ASSUME NEW k \in 1..s[x].calls
      PROVE  s[x + k].role = "tool" /\ s[x + k].of = s[x].at /\ s[x + k].call = k
  <2>1. x + k \in 1..Len(s) /\ (x + k) + o = x + o + k  BY <1>1
  <2>2. s[x + k] = c[x + o + k]  BY <2>1 DEF Window
  <2> QED  BY <1>1, <2>2 DEF Answered
<1> QED  BY <1>2 DEF Answered

\* A result that is announced in a window is announced in the whole.
LEMMA AnnouncedInTheWhole ==
  ASSUME NEW s, NEW c, NEW o, Window(s, c, o), NEW x \in 1..Len(s), Announced(s, x)
  PROVE  Announced(c, x + o)
<1>1. /\ Len(s) \in Nat /\ Len(c) \in Nat /\ o \in Nat /\ s[x] = c[x + o]
      /\ o + Len(s) <= Len(c)
  BY PositionsAre DEF Window
<1>2. PICK j \in 1..(x - 1) : /\ s[j].role = "assistant" /\ s[j].at = s[x].of
                              /\ \A m \in (j + 1)..x : s[m].role = "tool"
  BY DEF Announced
<1>3. j \in 1..Len(s) /\ j + o \in 1..(x + o - 1)  BY <1>1, <1>2
<1>4. s[j] = c[j + o]  BY <1>3 DEF Window
<1>5. ASSUME NEW m \in (j + o + 1)..(x + o) PROVE c[m].role = "tool"
  <2>1. m - o \in (j + 1)..x /\ m - o \in 1..Len(s) /\ (m - o) + o = m  BY <1>1, <1>3
  <2>2. s[m - o] = c[(m - o) + o]  BY <2>1 DEF Window
  <2> QED  BY <1>2, <2>1, <2>2
<1>6. c[j + o].role = "assistant" /\ c[j + o].at = c[x + o].of  BY <1>1, <1>2, <1>4
<1> QED  BY <1>1, <1>3, <1>5, <1>6 DEF Announced

\* Announced, at a position that is computed.
LEMMA AnnouncedIs ==
  ASSUME NEW s, NEW x
  PROVE  Announced(s, x) => \E j \in 1..(x - 1) :
                              /\ s[j].role = "assistant" /\ s[j].at = s[x].of
                              /\ \A m \in (j + 1)..x : s[m].role = "tool"
BY DEF Announced

\* And the other way round, unless the window begins with results up to it.
LEMMA AnnouncedInTheWindow ==
  ASSUME NEW s, NEW c, NEW o, Window(s, c, o), NEW x \in 1..Len(s), Announced(c, x + o),
         NEW y \in 1..x, s[y].role # "tool"
  PROVE  Announced(s, x)
<1>1. Len(s) \in Nat /\ o \in Nat /\ s[x] = c[x + o]  BY PositionsAre DEF Window
<1> DEFINE e == x + o
<1>2. Announced(c, e) /\ e = x + o /\ s[x] = c[e]  BY <1>1
<1> HIDE DEF e
<1>3. PICK j \in 1..(e - 1) : /\ c[j].role = "assistant" /\ c[j].at = c[e].of
                             /\ \A m \in (j + 1)..e : c[m].role = "tool"
  BY <1>2, AnnouncedIs
<1>4. y \in 1..Len(s) /\ s[y] = c[y + o]  BY <1>1 DEF Window
<1>5. j >= y + o
  <2> SUFFICES ASSUME ~(j >= y + o) PROVE FALSE  OBVIOUS
  <2>1. y + o \in (j + 1)..e  BY <1>1, <1>2, <1>3
  <2> QED  BY <1>3, <1>4, <2>1
<1>6. j - o \in 1..(x - 1) /\ j - o \in 1..Len(s) /\ (j - o) + o = j  BY <1>1, <1>2, <1>3, <1>5
<1>7. s[j - o] = c[j]  BY <1>6 DEF Window
<1>8. ASSUME NEW m \in (j - o + 1)..x PROVE s[m].role = "tool"
  <2>1. m + o \in (j + 1)..e /\ m \in 1..Len(s)
    <3>1. o \in Nat /\ Len(s) \in Nat /\ j - o \in Nat \ {0} /\ (j - o) + o = j
      BY <1>1, <1>6
    <3> DEFINE i == j - o
    <3>2. i \in Nat \ {0} /\ i + o = j /\ m \in (i + 1)..x  BY <3>1
    <3> HIDE DEF i
    <3> QED  BY <3>1, <3>2, <1>2
  <2>2. s[m] = c[m + o]  BY <2>1 DEF Window
  <2> QED  BY <1>3, <2>1, <2>2
<1> QED  BY <1>2, <1>3, <1>6, <1>7, <1>8 DEF Announced

-----------------------------------------------------------------------------
(* Legal conversations.                                                    *)

\* Before and after, in what two conversations make.
LEMMA Parts ==
  ASSUME NEW a \in Seq(Messages), NEW b \in Seq(Messages)
  PROVE  /\ a \o b \in Seq(Messages) /\ Len(a \o b) = Len(a) + Len(b)
         /\ Window(a, a \o b, 0) /\ Window(b, a \o b, Len(a))
         /\ \A x \in 1..Len(a) + Len(b) :
              (a \o b)[x] = IF x <= Len(a) THEN a[x] ELSE b[x - Len(a)]
<1>1. /\ a \o b \in Seq(Messages) /\ Len(a \o b) = Len(a) + Len(b)
      /\ Len(a) \in Nat /\ Len(b) \in Nat
  OBVIOUS
<1>2. \A x \in 1..Len(a) + Len(b) :
        (a \o b)[x] = IF x <= Len(a) THEN a[x] ELSE b[x - Len(a)]
  BY <1>1
<1>3. ASSUME NEW x \in 1..Len(a) PROVE a[x] = (a \o b)[x + 0]  BY <1>1, <1>2
<1>4. ASSUME NEW x \in 1..Len(b) PROVE b[x] = (a \o b)[x + Len(a)]
  <2>1. /\ x + Len(a) \in 1..Len(a) + Len(b) /\ ~(x + Len(a) <= Len(a))
        /\ (x + Len(a)) - Len(a) = x
    BY <1>1
  <2> QED  BY <2>1, <1>2
<1> QED  BY <1>1, <1>2, <1>3, <1>4 DEF Window

\* A legal conversation, by its positions.
LEMMA LegalIs ==
  ASSUME NEW s \in Seq(Messages)
  PROVE  Legal(s) <=> \A i \in 1..Len(s) : /\ s[i].role = "assistant" => Answered(s, i)
                                           /\ s[i].role = "tool" => Announced(s, i)
<1>1. DOMAIN s = 1..Len(s)  BY PositionsAre
<1> QED  BY <1>1 DEF Legal

\* One legal conversation after another is one.
LEMMA LegalAfterLegal ==
  ASSUME NEW a \in Seq(Messages), NEW b \in Seq(Messages), Legal(a), Legal(b)
  PROVE  Legal(a \o b)
<1>1. /\ Len(a) \in Nat /\ Len(b) \in Nat
      /\ a \o b \in Seq(Messages) /\ Len(a \o b) = Len(a) + Len(b)
      /\ Window(a, a \o b, 0) /\ Window(b, a \o b, Len(a))
  BY PositionsAre, Parts
<1>2. SUFFICES ASSUME NEW i \in 1..Len(a \o b)
               PROVE  /\ (a \o b)[i].role = "assistant" => Answered(a \o b, i)
                      /\ (a \o b)[i].role = "tool" => Announced(a \o b, i)
  BY <1>1, LegalIs
<1>3. CASE i <= Len(a)
  <2>1. i \in 1..Len(a) /\ i + 0 = i  BY <1>1, <1>3
  <2>2. a[i] = (a \o b)[i]  BY <2>1, <1>1 DEF Window
  <2>3. /\ a[i].role = "assistant" => Answered(a, i)
        /\ a[i].role = "tool" => Announced(a, i)
    BY <2>1, LegalIs
  <2>4. Answered(a, i) => Answered(a \o b, i)
    <3>1. Answered(a, i) => Answered(a \o b, i + 0)  BY <2>1, <1>1, AnsweredInTheWhole
    <3> QED  BY <3>1, <2>1
  <2>5. Announced(a, i) => Announced(a \o b, i)
    <3>1. Announced(a, i) => Announced(a \o b, i + 0)  BY <2>1, <1>1, AnnouncedInTheWhole
    <3> QED  BY <3>1, <2>1
  <2> QED  BY <2>2, <2>3, <2>4, <2>5
<1>4. CASE i > Len(a)
  <2> DEFINE x == i - Len(a)
  <2>1. x \in 1..Len(b) /\ x + Len(a) = i  BY <1>1, <1>4
  <2> HIDE DEF x
  <2>2. b[x] = (a \o b)[i]  BY <2>1, <1>1 DEF Window
  <2>3. /\ b[x].role = "assistant" => Answered(b, x)
        /\ b[x].role = "tool" => Announced(b, x)
    BY <2>1, LegalIs
  <2>4. Answered(b, x) => Answered(a \o b, i)
    <3>1. Answered(b, x) => Answered(a \o b, x + Len(a))  BY <2>1, <1>1, AnsweredInTheWhole
    <3> QED  BY <3>1, <2>1
  <2>5. Announced(b, x) => Announced(a \o b, i)
    <3>1. Announced(b, x) => Announced(a \o b, x + Len(a))  BY <2>1, <1>1, AnnouncedInTheWhole
    <3> QED  BY <3>1, <2>1
  <2> QED  BY <2>2, <2>3, <2>4, <2>5
<1> QED  BY <1>1, <1>3, <1>4

\* Nothing, one question, and any instructions are legal.
LEMMA LegalNothing == Legal(<< >>)
BY DEF Legal

LEMMA LegalQuestion ==
  ASSUME NEW m \in Messages, m.role = "user"
  PROVE  <<m>> \in Seq(Messages) /\ Len(<<m>>) = 1 /\ <<m>>[1] = m /\ Legal(<<m>>)
<1>1. <<m>> \in Seq(Messages) /\ Len(<<m>>) = 1 /\ \A i \in 1..1 : <<m>>[i] = m
  OBVIOUS
<1> QED  BY <1>1, LegalIs

LEMMA LegalInstructions ==
  ASSUME NEW s \in Seq(Messages), \A i \in 1..Len(s) : s[i].role = "system"
  PROVE  Legal(s)
BY LegalIs

-----------------------------------------------------------------------------
(* What is cut from a conversation.                                        *)

\* What is left once leading results are dropped.
LEMMA OrphansDropped ==
  ASSUME NEW s \in Seq(Messages)
  PROVE  \/ DropLeadingOrphan(s) = << >> /\ \A i \in 1..Len(s) : s[i].role = "tool"
         \/ \E f \in 1..Len(s) : /\ DropLeadingOrphan(s) = SubSeq(s, f, Len(s))
                                 /\ s[f].role # "tool"
                                 /\ \A i \in 1..(f - 1) : s[i].role = "tool"
<1> DEFINE spoken == {i \in DOMAIN s : s[i].role # "tool"}
           f == CHOOSE i \in spoken : \A j \in spoken : i <= j
<1>1. Len(s) \in Nat /\ DOMAIN s = 1..Len(s)  BY PositionsAre
<1>2. DropLeadingOrphan(s) = IF spoken = {} THEN << >> ELSE SubSeq(s, f, Len(s))
  BY DEF DropLeadingOrphan
<1>3. CASE spoken = {}  BY <1>1, <1>2, <1>3
<1>4. CASE spoken # {}
  <2>1. \E i \in spoken : \A j \in spoken : i <= j
    <3>1. spoken \subseteq Nat  BY <1>1
    <3> HIDE DEF spoken
    <3> QED  BY <3>1, <1>4, LeastNatural
  <2>2. f \in spoken /\ \A j \in spoken : f <= j  BY <2>1
  <2> HIDE DEF f
  <2>3. f \in 1..Len(s) /\ s[f].role # "tool"  BY <2>2, <1>1
  <2>4. \A i \in 1..(f - 1) : s[i].role = "tool"  BY <2>2, <2>3, <1>1
  <2> QED  BY <1>2, <1>4, <2>3, <2>4
<1> QED  BY <1>3, <1>4

\* A conversation that is legal after its first p messages, but that it may
\* begin there with the results of calls that are not in it.
Replayable(c, p) ==
  \A i \in (p + 1)..Len(c) :
    /\ c[i].role = "assistant" => Answered(c, i)
    /\ c[i].role = "tool" => \/ Announced(c, i)
                             \/ \A m \in (p + 1)..i : c[m].role = "tool"

\* A window of such a conversation that does not begin with a result and is
\* not followed by one is legal.
LEMMA WindowIsLegal ==
  ASSUME NEW d, NEW c, NEW o, Window(d, c, o), NEW p \in Nat, p <= o, Replayable(c, p),
         Len(d) > 0 => d[1].role # "tool",
         o + Len(d) < Len(c) => c[o + Len(d) + 1].role # "tool"
  PROVE  Legal(d)
<1>1. /\ d \in Seq(Messages) /\ c \in Seq(Messages) /\ o \in Nat
      /\ Len(d) \in Nat /\ Len(c) \in Nat /\ o + Len(d) <= Len(c)
  BY PositionsAre DEF Window
<1>2. ASSUME NEW x \in 1..Len(d)
      PROVE  /\ x + o \in (p + 1)..Len(c) /\ d[x] = c[x + o] /\ d[x].calls \in Nat
             /\ c[x + o].role = "assistant" => Answered(c, x + o)
             /\ c[x + o].role = "tool" => \/ Announced(c, x + o)
                                          \/ \A m \in (p + 1)..(x + o) : c[m].role = "tool"
  <2>1. x + o \in (p + 1)..Len(c) /\ d[x] = c[x + o]  BY <1>1 DEF Window
  <2>2. d[x].calls \in Nat  BY <1>1, PositionsAre
  <2> QED  BY <2>1, <2>2 DEF Replayable
<1>3. ASSUME NEW x \in 1..Len(d), d[x].role = "assistant" PROVE Answered(d, x)
  <2>1. Answered(c, x + o)  BY <1>2, <1>3
  <2>2. x + d[x].calls <= Len(d)
    <3> SUFFICES ASSUME ~(x + d[x].calls <= Len(d)) PROVE FALSE  OBVIOUS
    <3> DEFINE n == c[x + o].calls
               k == Len(d) + 1 - x
    <3>1. n \in Nat /\ d[x].calls = n /\ (x + o) + n <= Len(c)
      BY <1>2, <2>1 DEF Answered
    <3> HIDE DEF n
    <3>2. k \in 1..n /\ (x + o) + k = o + Len(d) + 1 /\ o + Len(d) < Len(c)
      <4>1. /\ n \in Nat /\ ~(x + n <= Len(d)) /\ (x + o) + n <= Len(c)
            /\ o \in Nat /\ Len(d) \in Nat /\ Len(c) \in Nat /\ x \in 1..Len(d)
        BY <3>1, <1>1
      <4> QED  BY ONLY <4>1
    <3> HIDE DEF k
    <3>3. c[(x + o) + k].role = "tool"  BY <2>1, <3>2 DEF Answered, n
    <3> QED  BY <3>2, <3>3
  <2> QED  BY <2>1, <2>2, AnsweredInTheWindow
<1>4. ASSUME NEW x \in 1..Len(d), d[x].role = "tool" PROVE Announced(d, x)
  <2>1. 1 \in 1..x /\ 1 \in 1..Len(d) /\ d[1].role # "tool"  BY <1>1
  <2>2. c[1 + o].role # "tool" /\ 1 + o \in (p + 1)..(x + o)  BY <2>1, <1>2, <1>1
  <2>3. Announced(c, x + o)  BY <2>2, <1>2, <1>4
  <2> QED  BY <2>1, <2>3, AnnouncedInTheWindow
<1> QED  BY <1>1, <1>3, <1>4, LegalIs

\* A cut from the middle of such a conversation is legal once leading results
\* are dropped, unless it is followed by one.
LEMMA CutIsLegal ==
  ASSUME NEW c \in Seq(Messages), NEW p \in 0..Len(c), Replayable(c, p),
         NEW i \in (p + 1)..(Len(c) + 1), NEW j \in p..Len(c),
         j < Len(c) => c[j + 1].role # "tool"
  PROVE  /\ DropLeadingOrphan(SubSeq(c, i, j)) \in Seq(Messages)
         /\ Legal(DropLeadingOrphan(SubSeq(c, i, j)))
<1> DEFINE w == SubSeq(c, i, j)
           d == DropLeadingOrphan(w)
<1>1. /\ Len(c) \in Nat /\ p \in Nat /\ i \in 1..Len(c) + 1 /\ j \in 0..Len(c)
      /\ p \in 0..Len(c)
  BY PositionsAre
<1>2. /\ w \in Seq(Messages) /\ Len(w) = IF i <= j THEN j - i + 1 ELSE 0
      /\ \A n \in 1..Len(w) : w[n] = c[n + i - 1]
  BY <1>1, WindowOf
<1>3. ASSUME d = << >> PROVE d \in Seq(Messages) /\ Legal(d)
  <2> HIDE DEF d
  <2> QED  BY <1>3, LegalNothing
<1>4. ASSUME NEW f \in 1..Len(w), d = SubSeq(w, f, Len(w)), w[f].role # "tool"
      PROVE  d \in Seq(Messages) /\ Legal(d)
  <2> HIDE DEF d, w
  <2>1. /\ Len(w) \in Nat /\ i <= j /\ Len(w) = j - i + 1
        /\ f \in 1..Len(w) + 1 /\ Len(w) \in 0..Len(w)
    BY <1>1, <1>2
  <2>2. /\ d \in Seq(Messages) /\ Len(d) = Len(w) - f + 1
        /\ \A n \in 1..Len(d) : d[n] = w[n + f - 1]
    <3>1. f <= Len(w)  BY <2>1
    <3> QED  BY <2>1, <1>2, <1>4, <3>1, WindowOf
  <2> DEFINE o == (f - 1) + (i - 1)
  <2>3. o \in Nat /\ p <= o /\ o + Len(d) = j  BY <1>1, <2>1, <2>2
  <2>4. ASSUME NEW n \in 1..Len(d) PROVE d[n] = c[n + o]
    <3>1. n + f - 1 \in 1..Len(w) /\ (n + f - 1) + i - 1 = n + o  BY <1>1, <2>1, <2>2
    <3>2. w[n + f - 1] = c[(n + f - 1) + i - 1]  BY <3>1, <1>2
    <3> QED  BY <2>2, <3>1, <3>2
  <2> HIDE DEF o
  <2>5. Window(d, c, o)
    <3>1. o + Len(d) <= Len(c)  BY <1>1, <2>3
    <3> QED  BY <2>2, <2>3, <2>4, <3>1 DEF Window
  <2>6. d[1].role # "tool"
    <3>1. 1 \in 1..Len(d) /\ 1 + f - 1 = f  BY <2>1, <2>2
    <3> QED  BY <3>1, <2>2, <1>4
  <2>7. o + Len(d) < Len(c) => c[o + Len(d) + 1].role # "tool"  BY <2>3
  <2> QED  BY <1>1, <2>2, <2>3, <2>5, <2>6, <2>7, WindowIsLegal
<1>5. w \in Seq(Messages)  BY <1>2
<1> HIDE DEF d, w
<1>6. d = << >> \/ \E f \in 1..Len(w) : d = SubSeq(w, f, Len(w)) /\ w[f].role # "tool"
  <2>1. d = DropLeadingOrphan(w)  BY DEF d
  <2> QED  BY <1>5, <2>1, OrphansDropped
<1>7. d \in Seq(Messages) /\ Legal(d)  BY <1>3, <1>4, <1>6
<1> QED  BY <1>7 DEF d, w

-----------------------------------------------------------------------------
(* What messages cost.                                                     *)

\* Where the results are in a conversation
Results(s) == {i \in DOMAIN s : s[i].role = "tool"}

\* The cost of a conversation is a number, and every message is in it.
LEMMA CostIs ==
  ASSUME NEW s \in Seq(Messages)
  PROVE  Cost(s) \in Nat /\ Len(s) <= Cost(s) /\ Cardinality(Results(s)) \in Nat
<1>1. Len(s) \in Nat /\ Results(s) \subseteq 1..Len(s)  BY PositionsAre DEF Results
<1> DEFINE n == Cardinality(Results(s))
<1>2. n \in Nat  BY <1>1, PositionsAreFinite
<1>3. ResultSize - 1 \in Nat  BY ChatAssumption
<1>4. Cost(s) = Len(s) + (ResultSize - 1) * n  BY DEF Cost, Results
<1> HIDE DEF n
<1>5. \A k \in Nat : k * n \in Nat  BY <1>2
<1>6. (ResultSize - 1) * n \in Nat  BY <1>3, <1>5
<1> QED  BY <1>1, <1>2, <1>4, <1>6 DEF n

\* What two conversations cost together.
LEMMA CostTogether ==
  ASSUME NEW a \in Seq(Messages), NEW b \in Seq(Messages)
  PROVE  Cost(a \o b) = Cost(a) + Cost(b)
<1> DEFINE o == Len(a)
           T == {i + o : i \in Results(b)}
<1>1. /\ Len(a) \in Nat /\ Len(b) \in Nat
      /\ Results(a) \subseteq 1..Len(a) /\ Results(b) \subseteq 1..Len(b)
      /\ Results(a \o b) = {i \in 1..Len(a) + Len(b) : (a \o b)[i].role = "tool"}
  BY PositionsAre, Parts DEF Results
<1>2. /\ IsFiniteSet(Results(a)) /\ IsFiniteSet(T) /\ Cardinality(T) = Cardinality(Results(b))
      /\ Cardinality(Results(a)) \in Nat /\ Cardinality(Results(b)) \in Nat
  BY <1>1, PositionsAreFinite, MovedPositions
<1>3. Results(a \o b) = Results(a) \cup T
  <2>1. ASSUME NEW x \in Results(a \o b) PROVE x \in Results(a) \cup T
    <3>1. CASE x <= Len(a)
      <4>1. x \in 1..Len(a) /\ a[x].role = "tool"  BY <1>1, <3>1, Parts
      <4> QED  BY <4>1, PositionsAre DEF Results
    <3>2. CASE x > Len(a)
      <4>1. x - o \in 1..Len(b) /\ (x - o) + o = x /\ b[x - o].role = "tool"
        BY <1>1, <3>2, Parts
      <4>2. x - o \in Results(b)  BY <4>1, PositionsAre DEF Results
      <4> QED  BY <4>1, <4>2
    <3> QED  BY <1>1, <3>1, <3>2
  <2>2. ASSUME NEW x \in Results(a) PROVE x \in Results(a \o b)
    <3>1. /\ x \in 1..Len(a) + Len(b) /\ x <= Len(a) /\ a[x].role = "tool"
      BY <1>1 DEF Results
    <3> QED  BY <3>1, <1>1, Parts
  <2>3. ASSUME NEW x \in Results(b) PROVE x + o \in Results(a \o b)
    <3>1. /\ x + o \in 1..Len(a) + Len(b) /\ ~(x + o <= Len(a)) /\ (x + o) - Len(a) = x
          /\ b[x].role = "tool"
      BY <1>1 DEF Results
    <3> QED  BY <3>1, <1>1, Parts
  <2> QED  BY <2>1, <2>2, <2>3
<1>4. Results(a) \cap T = {}
  <2> SUFFICES ASSUME NEW x \in Results(b), x + o \in Results(a) PROVE FALSE  OBVIOUS
  <2> QED  BY <1>1
<1> HIDE DEF o, T
<1>5. Cardinality(Results(a \o b)) = Cardinality(Results(a)) + Cardinality(Results(b))
  <2>1. Cardinality({}) = 0  BY FS_EmptySet
  <2>2. Cardinality(Results(a) \cup T)
          = Cardinality(Results(a)) + Cardinality(T) - Cardinality(Results(a) \cap T)
    BY <1>2, FS_Union
  <2>3. Cardinality(Results(a) \cup T) = Cardinality(Results(a)) + Cardinality(Results(b)) - 0
    BY <2>1, <2>2, <1>2, <1>4
  <2> QED  BY <2>3, <1>2, <1>3
<1> DEFINE m == Cardinality(Results(a))
           n == Cardinality(Results(b))
           k == ResultSize - 1
<1>6. /\ Cost(a) = Len(a) + k * m /\ Cost(b) = Len(b) + k * n
      /\ Cost(a \o b) = (Len(a) + Len(b)) + k * (m + n)
  BY <1>5, Parts DEF Cost, Results
<1>7. k \in Nat /\ m \in Nat /\ n \in Nat  BY <1>2, ChatAssumption
<1> HIDE DEF m, n, k
<1>8. \A x, y, z \in Nat : x * (y + z) = x * y + x * z /\ x * y \in Nat /\ x * z \in Nat
  OBVIOUS
<1>9. k * (m + n) = k * m + k * n /\ k * m \in Nat /\ k * n \in Nat  BY <1>7, <1>8
<1> QED  BY <1>1, <1>6, <1>9

\* A question is one message, and nothing costs nothing.
LEMMA CostOfQuestion ==
  ASSUME NEW m \in Messages, m.role = "user" PROVE Cost(<<m>>) = 1
<1>1. <<m>> \in Seq(Messages) /\ Len(<<m>>) = 1 /\ <<m>>[1] = m  BY LegalQuestion
<1>2. Results(<<m>>) = {}  BY <1>1, PositionsAre DEF Results
<1>3. Cardinality(Results(<<m>>)) = 0  BY <1>2, FS_EmptySet
<1>4. Cost(<<m>>) = 1 + (ResultSize - 1) * 0  BY <1>1, <1>3 DEF Cost, Results
<1> QED  BY <1>4, ChatAssumption

LEMMA CostOfNothing == Cost(<< >>) = 0 /\ << >> \in Seq(Messages) /\ Len(<< >>) = 0
<1>1. << >> \in Seq(Messages) /\ Len(<< >>) = 0  OBVIOUS
<1>2. Results(<< >>) = {}  BY <1>1, PositionsAre DEF Results
<1>3. Cardinality(Results(<< >>)) = 0  BY <1>2, FS_EmptySet
<1>4. Cost(<< >>) = 0 + (ResultSize - 1) * 0  BY <1>1, <1>3 DEF Cost, Results
<1> QED  BY <1>1, <1>4, ChatAssumption

\* Two halves of a conversation.
LEMMA Halves ==
  ASSUME NEW s \in Seq(Messages), NEW i \in 1..Len(s) + 1
  PROVE  s = SubSeq(s, 1, i - 1) \o SubSeq(s, i, Len(s))
<1> DEFINE a == SubSeq(s, 1, i - 1)
           b == SubSeq(s, i, Len(s))
<1>1. /\ Len(s) \in Nat /\ 1 \in 1..Len(s) + 1 /\ i - 1 \in 0..Len(s) /\ Len(s) \in 0..Len(s)
      /\ i \in Nat
  BY PositionsAre
<1>2. /\ a \in Seq(Messages) /\ Len(a) = i - 1
      /\ \A n \in 1..Len(a) : a[n] = s[n + 1 - 1]
  <2>1. (IF 1 <= i - 1 THEN (i - 1) - 1 + 1 ELSE 0) = i - 1  BY <1>1
  <2> QED  BY <1>1, <2>1, WindowOf
<1>3. /\ b \in Seq(Messages) /\ Len(b) = Len(s) - i + 1
      /\ \A n \in 1..Len(b) : b[n] = s[n + i - 1]
  <2>1. (IF i <= Len(s) THEN Len(s) - i + 1 ELSE 0) = Len(s) - i + 1  BY <1>1
  <2> QED  BY <1>1, <2>1, WindowOf
<1> HIDE DEF a, b
<1>4. a \o b \in Seq(Messages) /\ Len(a \o b) = Len(s)  BY <1>1, <1>2, <1>3, Parts
<1>5. ASSUME NEW x \in 1..Len(s) PROVE (a \o b)[x] = s[x]
  <2>1. x \in 1..Len(a) + Len(b)  BY <1>1, <1>2, <1>3
  <2>2. CASE x <= i - 1
    <3>1. x \in 1..Len(a) /\ x + 1 - 1 = x  BY <1>1, <1>2, <2>2
    <3>2. a[x] = s[x]  BY <3>1, <1>2
    <3> QED  BY <2>1, <2>2, <3>2, <1>2, <1>3, Parts
  <2>3. CASE x > i - 1
    <3>1. x - Len(a) \in 1..Len(b) /\ (x - Len(a)) + i - 1 = x /\ ~(x <= Len(a))
      BY <1>1, <1>2, <1>3, <2>3
    <3>2. b[x - Len(a)] = s[x]  BY <3>1, <1>3
    <3> QED  BY <2>1, <3>1, <3>2, <1>2, <1>3, Parts
  <2>4. x <= i - 1 \/ x > i - 1  BY <1>1
  <2> QED  BY <2>2, <2>3, <2>4
<1> QED  BY <1>4, <1>5, SeqEqual DEF a, b

\* To drop leading results does not cost more.
LEMMA OrphansCost ==
  ASSUME NEW s \in Seq(Messages)
  PROVE  /\ DropLeadingOrphan(s) \in Seq(Messages)
         /\ Cost(DropLeadingOrphan(s)) <= Cost(s)
<1>1. CASE DropLeadingOrphan(s) = << >>  BY <1>1, CostOfNothing, CostIs
<1>2. CASE \E f \in 1..Len(s) : DropLeadingOrphan(s) = SubSeq(s, f, Len(s))
  <2>1. PICK f \in 1..Len(s) : DropLeadingOrphan(s) = SubSeq(s, f, Len(s))  BY <1>2
  <2>2. Len(s) \in Nat /\ f \in 1..Len(s) + 1 /\ f - 1 \in 0..Len(s) /\ 1 \in 1..Len(s) + 1
    BY PositionsAre
  <2>3. SubSeq(s, f, Len(s)) \in Seq(Messages) /\ SubSeq(s, 1, f - 1) \in Seq(Messages)
    BY <2>2, WindowOf
  <2>4. s = SubSeq(s, 1, f - 1) \o SubSeq(s, f, Len(s))  BY <2>2, Halves
  <2>5. Cost(s) = Cost(SubSeq(s, 1, f - 1)) + Cost(SubSeq(s, f, Len(s)))
    BY <2>3, <2>4, CostTogether
  <2>6. Cost(SubSeq(s, 1, f - 1)) \in Nat /\ Cost(SubSeq(s, f, Len(s))) \in Nat
    BY <2>3, CostIs
  <2> QED  BY <2>1, <2>3, <2>5, <2>6
<1> QED  BY <1>1, <1>2, OrphansDropped

\* The newest messages that fit are an end of the conversation, and fit.
LEMMA NewestFits ==
  ASSUME NEW s \in Seq(Messages), NEW room \in Nat
  PROVE  \E i \in 1..Len(s) + 1 : /\ Newest(s, room) = SubSeq(s, i, Len(s))
                                  /\ Cost(SubSeq(s, i, Len(s))) <= room
<1> DEFINE fits == {k \in 0..Len(s) : Cost(SubSeq(s, Len(s) - k + 1, Len(s))) <= room}
           most == IF fits = {} THEN 0 ELSE CHOOSE k \in fits : \A j \in fits : j <= k
<1>1. Len(s) \in Nat  BY PositionsAre
<1>2. 0 \in fits
  <2>1. Len(s) - 0 + 1 = Len(s) + 1 /\ 0 \in 0..Len(s)  BY <1>1
  <2>2. SubSeq(s, Len(s) + 1, Len(s)) = << >>
    <3>1. Len(s) + 1 \in 1..Len(s) + 1 /\ Len(s) \in 0..Len(s) /\ ~(Len(s) + 1 <= Len(s))
      BY <1>1
    <3>2. /\ SubSeq(s, Len(s) + 1, Len(s)) \in Seq(Messages)
          /\ Len(SubSeq(s, Len(s) + 1, Len(s))) = 0
      BY <3>1, WindowOf
    <3> QED  BY <3>2, EmptySeq
  <2>3. SubSeq(s, Len(s) - 0 + 1, Len(s)) = << >>  BY <2>1, <2>2
  <2>4. Cost(SubSeq(s, Len(s) - 0 + 1, Len(s))) <= room
    <3>1. Cost(SubSeq(s, Len(s) - 0 + 1, Len(s))) = Cost(<< >>)  BY ONLY <2>3
    <3>2. Cost(<< >>) = 0 /\ 0 <= room  BY CostOfNothing
    <3> QED  BY <3>1, <3>2
  <2> QED  BY <2>1, <2>4
<1>3. most \in fits
  <2>1. fits \subseteq 0..Len(s) /\ fits # {}  BY <1>2
  <2>2. most = CHOOSE k \in fits : \A j \in fits : j <= k  BY <2>1
  <2> HIDE DEF fits
  <2>3. \E k \in fits : \A j \in fits : j <= k  BY <1>1, <2>1, GreatestNatural
  <2> QED  BY <2>2, <2>3
<1>4. Newest(s, room) = SubSeq(s, Len(s) - most + 1, Len(s))  BY DEF Newest
<1> HIDE DEF most
<1>5. Len(s) - most + 1 \in 1..Len(s) + 1  BY <1>1, <1>3
<1> QED  BY <1>3, <1>4, <1>5

-----------------------------------------------------------------------------
(* What is pinned, and what is asked.                                      *)

\* The first p messages are the instructions a conversation begins with.
Instructions(s, p) ==
  /\ p \in 0..Len(s)
  /\ \A i \in 1..p : s[i].role = "system"
  /\ p < Len(s) => s[p + 1].role # "system"

\* The message at q is the newest question.
Question(s, q) ==
  /\ q \in 1..Len(s) /\ s[q].role = "user"
  /\ \A i \in (q + 1)..Len(s) : s[i].role # "user"

LEMMA PinnedIs ==
  ASSUME NEW s \in Seq(Messages)
  PROVE  Instructions(s, Pinned(s))
<1>1. Len(s) \in Nat  BY PositionsAre
<1> DEFINE T == {q \in 0..Len(s) : q < Len(s) => s[q + 1].role # "system"}
<1>2. PICK p \in T : \A q \in T : p <= q
  <2>1. T \subseteq Nat /\ Len(s) \in T  BY <1>1
  <2> HIDE DEF T
  <2> QED  BY <2>1, LeastNatural
<1>3. ASSUME NEW i \in 1..p PROVE s[i].role = "system"
  <2>1. i - 1 \in 0..Len(s) /\ ~(p <= i - 1) /\ (i - 1) + 1 = i  BY <1>1, <1>2
  <2>2. i - 1 \notin T  BY <1>2, <2>1
  <2> QED  BY <2>1, <2>2
<1>4. \E q \in 0..Len(s) : /\ \A i \in 1..q : s[i].role = "system"
                           /\ q < Len(s) => s[q + 1].role # "system"
  BY <1>2, <1>3
<1> QED  BY <1>4 DEF Pinned, Instructions

\* There is one such place.
LEMMA PinnedIsUnique ==
  ASSUME NEW s \in Seq(Messages), NEW p, NEW q, Instructions(s, p), Instructions(s, q)
  PROVE  p = q
<1>1. Len(s) \in Nat /\ p \in 0..Len(s) /\ q \in 0..Len(s)
  BY PositionsAre DEF Instructions
<1>2. ~(p < q)
  <2> SUFFICES ASSUME p < q PROVE FALSE  OBVIOUS
  <2>1. p + 1 \in 1..q /\ p < Len(s)  BY <1>1
  <2> QED  BY <2>1 DEF Instructions
<1>3. ~(q < p)
  <2> SUFFICES ASSUME q < p PROVE FALSE  OBVIOUS
  <2>1. q + 1 \in 1..p /\ q < Len(s)  BY <1>1
  <2> QED  BY <2>1 DEF Instructions
<1> QED  BY <1>1, <1>2, <1>3

LEMMA RequestIs ==
  ASSUME NEW s \in Seq(Messages), NEW i \in 1..Len(s), s[i].role = "user"
  PROVE  Question(s, RequestAt(s))
<1>1. Len(s) \in Nat /\ DOMAIN s = 1..Len(s)  BY PositionsAre
<1> DEFINE asked == {j \in DOMAIN s : s[j].role = "user"}
           r == CHOOSE k \in asked : \A j \in asked : j <= k
<1>2. asked # {} /\ asked \subseteq 0..Len(s)  BY <1>1
<1>3. RequestAt(s) = r  BY <1>2 DEF RequestAt
<1>4. r \in asked /\ \A j \in asked : j <= r
  <2> HIDE DEF asked
  <2>1. \E k \in asked : \A j \in asked : j <= k  BY <1>1, <1>2, GreatestNatural
  <2> QED  BY <2>1
<1> HIDE DEF r
<1>5. \A j \in (r + 1)..Len(s) : s[j].role # "user"
  <2> SUFFICES ASSUME NEW j \in (r + 1)..Len(s), s[j].role = "user" PROVE FALSE  OBVIOUS
  <2>1. r \in 1..Len(s)  BY <1>1, <1>4
  <2>2. j \in 1..Len(s) /\ ~(j <= r)  BY <1>1, <2>1
  <2> QED  BY <1>1, <1>4, <2>2
<1> QED  BY <1>1, <1>3, <1>4, <1>5 DEF Question

LEMMA QuestionIsUnique ==
  ASSUME NEW s \in Seq(Messages), NEW q, NEW r, Question(s, q), Question(s, r)
  PROVE  q = r
<1>1. /\ Len(s) \in Nat /\ q \in 1..Len(s) /\ r \in 1..Len(s)
      /\ s[q].role = "user" /\ s[r].role = "user"
  BY PositionsAre DEF Question
<1>2. ~(q < r)
  <2> SUFFICES ASSUME q < r PROVE FALSE  OBVIOUS
  <2>1. r \in (q + 1)..Len(s)  BY <1>1
  <2> QED  BY <1>1, <2>1 DEF Question
<1>3. ~(r < q)
  <2> SUFFICES ASSUME r < q PROVE FALSE  OBVIOUS
  <2>1. q \in (r + 1)..Len(s)  BY <1>1
  <2> QED  BY <1>1, <2>1 DEF Question
<1> QED  BY <1>1, <1>2, <1>3

-----------------------------------------------------------------------------
(* What is sent of a conversation with a question.                         *)

\* The newest messages of a window that fit, without leading results, are a
\* cut that ends where the window does.
LEMMA NewestOfWindow ==
  ASSUME NEW s \in Seq(Messages), NEW i \in 1..Len(s) + 1, NEW j \in 0..Len(s), i <= j + 1,
         NEW room \in Nat
  PROVE  \E k \in i..(j + 1) :
           /\ DropLeadingOrphan(Newest(SubSeq(s, i, j), room))
                = DropLeadingOrphan(SubSeq(s, k, j))
           /\ DropLeadingOrphan(SubSeq(s, k, j)) \in Seq(Messages)
           /\ Cost(DropLeadingOrphan(SubSeq(s, k, j))) <= room
<1> DEFINE w == SubSeq(s, i, j)
<1>1. w \in Seq(Messages)  BY WindowOf
<1>2. PICK h \in 1..Len(w) + 1 : /\ Newest(w, room) = SubSeq(w, h, Len(w))
                                 /\ Cost(SubSeq(w, h, Len(w))) <= room
  <2> HIDE DEF w
  <2> QED  BY <1>1, NewestFits
<1>3. SubSeq(w, h, Len(w)) = SubSeq(s, i + h - 1, j) /\ i + h - 1 \in i..(j + 1)
  BY EndOfWindow
<1> DEFINE k == i + h - 1
           n == SubSeq(s, k, j)
<1>4. Newest(w, room) = n /\ Cost(n) <= room /\ k \in i..(j + 1)  BY <1>2, <1>3
<1>5. n \in Seq(Messages)
  <2>1. k \in 1..Len(s) + 1  BY <1>4, PositionsAre
  <2> HIDE DEF k
  <2> QED  BY <2>1, WindowOf
<1>6. /\ DropLeadingOrphan(n) \in Seq(Messages)
      /\ Cost(DropLeadingOrphan(n)) <= room
  <2> HIDE DEF n
  <2>1. DropLeadingOrphan(n) \in Seq(Messages) /\ Cost(DropLeadingOrphan(n)) <= Cost(n)
    BY <1>5, OrphansCost
  <2>2. Cost(n) \in Nat /\ Cost(DropLeadingOrphan(n)) \in Nat  BY <1>5, <2>1, CostIs
  <2> QED  BY <1>4, <2>1, <2>2
<1> QED  BY <1>4, <1>6

\* The parts of a request: the instructions, something of the turns before the
\* question, the question and something of what followed it.
Sent(s, q, p, e, w) ==
  /\ Instructions(s, p) /\ p < q
  /\ e \in Seq(Messages) /\ w \in Seq(Messages)
  /\ \/ e = << >>
     \/ \E i \in (p + 1)..q : e = DropLeadingOrphan(SubSeq(s, i, q - 1))
  /\ \E k \in (q + 1)..(Len(s) + 1) : w = DropLeadingOrphan(SubSeq(s, k, Len(s)))
  /\ Trim(s) = SubSeq(s, 1, p) \o e \o <<s[q]>> \o w
  /\ \/ Cost(SubSeq(s, 1, p)) + Cost(e) + 1 + Cost(w) <= Budget
     \/ Cost(e) = 0 /\ Cost(w) = 0

LEMMA TrimIs ==
  ASSUME NEW s \in Seq(Messages), NEW q, Question(s, q)
  PROVE  \E p, e, w : Sent(s, q, p, e, w)
<1> DEFINE p == Pinned(s)
           r == RequestAt(s)
           used == Cost(SubSeq(s, 1, p)) + 1
           room(n) == IF used + n > Budget THEN 0 ELSE Budget - used - n
           work == SubSeq(s, r + 1, Len(s))
           kept == DropLeadingOrphan(Newest(work, room(0)))
           before == DropLeadingOrphan(Newest(SubSeq(s, p + 1, r - 1), room(Cost(work))))
           earlier == IF kept # work THEN << >> ELSE before
<1>1. Len(s) \in Nat /\ q \in 1..Len(s) /\ s[q].role = "user"
  BY PositionsAre DEF Question
<1>2. r = q  BY <1>1, RequestIs, QuestionIsUnique
<1>3. Instructions(s, p)  BY PinnedIs
<1>4. p \in 0..Len(s) /\ p < q
  <2>1. p \in 0..Len(s) /\ (q \in 1..p => s[q].role = "system")  BY <1>3 DEF Instructions
  <2> HIDE DEF p
  <2> QED  BY <1>1, <2>1
<1>5. Trim(s) = SubSeq(s, 1, p) \o earlier \o <<s[r]>> \o kept
  <2>1. p # Len(s)  BY <1>1, <1>4
  <2> QED  BY <2>1 DEF Trim
<1>6. SubSeq(s, 1, p) \in Seq(Messages) /\ Cost(SubSeq(s, 1, p)) \in Nat /\ used \in Nat
  <2> HIDE DEF p
  <2>1. 1 \in 1..Len(s) + 1  BY <1>1
  <2>2. SubSeq(s, 1, p) \in Seq(Messages)  BY <1>4, <2>1, WindowOf
  <2>3. Cost(SubSeq(s, 1, p)) \in Nat  BY <2>2, CostIs
  <2> QED  BY <2>2, <2>3
<1>7. Budget \in Nat  BY ChatAssumption
<1>8. \A n \in Nat : room(n) \in Nat
  <2> HIDE DEF used
  <2> QED  BY <1>6, <1>7
<1>9. PICK k \in (q + 1)..(Len(s) + 1) :
        /\ kept = DropLeadingOrphan(SubSeq(s, k, Len(s)))
        /\ kept \in Seq(Messages) /\ Cost(kept) <= room(0)
  <2>1. room(0) \in Nat  BY <1>8
  <2> DEFINE c == room(0)
  <2>2. /\ q + 1 \in 1..Len(s) + 1 /\ Len(s) \in 0..Len(s) /\ q + 1 <= Len(s) + 1
        /\ c \in Nat
    BY <1>1, <2>1
  <2> HIDE DEF c, room
  <2>3. \E k \in (q + 1)..(Len(s) + 1) :
          /\ DropLeadingOrphan(Newest(SubSeq(s, q + 1, Len(s)), c))
               = DropLeadingOrphan(SubSeq(s, k, Len(s)))
          /\ DropLeadingOrphan(SubSeq(s, k, Len(s))) \in Seq(Messages)
          /\ Cost(DropLeadingOrphan(SubSeq(s, k, Len(s)))) <= c
    BY <2>2, NewestOfWindow
  <2>4. kept = DropLeadingOrphan(Newest(SubSeq(s, q + 1, Len(s)), c))  BY <1>2 DEF c
  <2> HIDE DEF kept
  <2> QED  BY <2>3, <2>4 DEF c
<1>10. work \in Seq(Messages) /\ Cost(work) \in Nat
  <2>1. r + 1 \in 1..Len(s) + 1 /\ Len(s) \in 0..Len(s)  BY <1>1, <1>2
  <2> HIDE DEF r
  <2>2. work \in Seq(Messages)  BY <2>1, WindowOf
  <2> QED  BY <2>2, CostIs
<1>11. PICK i \in (p + 1)..q :
         /\ before = DropLeadingOrphan(SubSeq(s, i, q - 1))
         /\ before \in Seq(Messages) /\ Cost(before) <= room(Cost(work))
  <2>1. room(Cost(work)) \in Nat  BY <1>8, <1>10
  <2> DEFINE c == room(Cost(work))
  <2>2. /\ p + 1 \in 1..Len(s) + 1 /\ q - 1 \in 0..Len(s) /\ p + 1 <= (q - 1) + 1
        /\ (q - 1) + 1 = q /\ c \in Nat
    <3> HIDE DEF p, room
    <3> QED  BY <1>1, <1>4, <2>1
  <2> HIDE DEF c, room, p
  <2>3. \E i \in (p + 1)..((q - 1) + 1) :
          /\ DropLeadingOrphan(Newest(SubSeq(s, p + 1, q - 1), c))
               = DropLeadingOrphan(SubSeq(s, i, q - 1))
          /\ DropLeadingOrphan(SubSeq(s, i, q - 1)) \in Seq(Messages)
          /\ Cost(DropLeadingOrphan(SubSeq(s, i, q - 1))) <= c
    BY <2>2, NewestOfWindow
  <2>4. before = DropLeadingOrphan(Newest(SubSeq(s, p + 1, q - 1), c))  BY <1>2 DEF c
  <2> HIDE DEF before
  <2> QED  BY <2>2, <2>3, <2>4 DEF c
<1> HIDE DEF before, kept, p, r
<1>12. /\ earlier \in Seq(Messages)
       /\ \/ earlier = << >>
          \/ \E i0 \in (p + 1)..q : earlier = DropLeadingOrphan(SubSeq(s, i0, q - 1))
  <2> HIDE DEF work
  <2> QED  BY <1>11, CostOfNothing
<1>13. \/ Cost(SubSeq(s, 1, p)) + Cost(earlier) + 1 + Cost(kept) <= Budget
       \/ Cost(earlier) = 0 /\ Cost(kept) = 0
  <2>1. Cost(kept) \in Nat /\ Cost(before) \in Nat /\ Cost(earlier) \in Nat
    BY <1>9, <1>11, <1>12, CostIs
  <2> DEFINE u == Cost(SubSeq(s, 1, p))
             a == Cost(before)
             b == Cost(kept)
  <2>2. u \in Nat /\ a \in Nat /\ b \in Nat  BY <1>6, <2>1
  <2>3. b <= IF u + 1 + 0 > Budget THEN 0 ELSE Budget - (u + 1) - 0  BY <1>9
  <2>4. CASE kept # work
    <3>1. Cost(earlier) = 0  BY <2>4, CostOfNothing
    <3> HIDE DEF u, a, b
    <3>2. u + 0 + 1 + b <= Budget \/ b = 0  BY <2>2, <2>3, <1>7
    <3> QED  BY <3>1, <3>2 DEF u, b
  <2>5. CASE kept = work
    <3>1. Cost(earlier) = a  BY <2>5
    <3>2. a <= IF u + 1 + b > Budget THEN 0 ELSE Budget - (u + 1) - b  BY <1>11, <2>5
    <3> HIDE DEF u, a, b
    <3>3. u + a + 1 + b <= Budget \/ (a = 0 /\ b = 0)
      <4>1. CASE u + 1 > Budget
        <5>1. b <= 0 /\ a <= 0  BY <4>1, <2>2, <2>3, <3>2, <1>7
        <5> QED  BY <5>1, <2>2
      <4>2. CASE ~(u + 1 > Budget)
        <5>1. b <= Budget - (u + 1)  BY <4>2, <2>2, <2>3, <1>7
        <5>2. a <= Budget - (u + 1) - b  BY <5>1, <2>2, <3>2, <1>7
        <5> QED  BY <5>2, <2>2, <1>7
      <4> QED  BY <4>1, <4>2
    <3> QED  BY <3>1, <3>3 DEF u, b
  <2> QED  BY <2>4, <2>5
<1>14. Sent(s, q, p, earlier, kept)
  <2> HIDE DEF earlier
  <2> QED  BY <1>2, <1>3, <1>4, <1>5, <1>9, <1>12, <1>13 DEF Sent
<1> QED  BY <1>14

\* A request up to the question, and with it
Before(s, p, e) == SubSeq(s, 1, p) \o e
UpTo(s, q, p, e) == Before(s, p, e) \o <<s[q]>>

\* The parts in their places.
Parted(s, q, p, e, w) ==
  LET a == SubSeq(s, 1, p)
      b == Before(s, p, e)
      c == UpTo(s, q, p, e)
  IN  /\ a \in Seq(Messages) /\ Len(a) = p
      /\ \A i \in 1..p : a[i].role = "system"
      /\ s[q] \in Messages /\ s[q].role = "user"
      /\ b \in Seq(Messages) /\ Len(b) = p + Len(e) /\ b = a \o e
      /\ c \in Seq(Messages) /\ Len(c) = p + Len(e) + 1 /\ c[p + Len(e) + 1] = s[q]
      /\ c = b \o <<s[q]>>
      /\ Trim(s) = c \o w /\ Trim(s) \in Seq(Messages)
      /\ Len(Trim(s)) = p + Len(e) + 1 + Len(w)
      /\ p \in Nat /\ Len(e) \in Nat /\ Len(w) \in Nat

LEMMA SentIsParted ==
  ASSUME NEW s \in Seq(Messages), NEW q, Question(s, q), NEW p, NEW e, NEW w, Sent(s, q, p, e, w)
  PROVE  Parted(s, q, p, e, w)
<1> DEFINE a == SubSeq(s, 1, p)
           b == Before(s, p, e)
           c == UpTo(s, q, p, e)
<1>1. /\ Len(s) \in Nat /\ p \in 0..Len(s) /\ \A i \in 1..p : s[i].role = "system"
      /\ q \in 1..Len(s) /\ s[q].role = "user" /\ s[q] \in Messages
      /\ e \in Seq(Messages) /\ w \in Seq(Messages)
      /\ Trim(s) = a \o e \o <<s[q]>> \o w
      /\ b = a \o e /\ c = b \o <<s[q]>>
  BY PositionsAre DEF Sent, Instructions, Question, Before, UpTo
<1>2. a \in Seq(Messages) /\ Len(a) = p /\ \A i \in 1..p : a[i].role = "system"
  <2>1. 1 \in 1..Len(s) + 1 /\ (IF 1 <= p THEN p - 1 + 1 ELSE 0) = p  BY <1>1
  <2>2. a \in Seq(Messages) /\ Len(a) = p /\ \A n \in 1..Len(a) : a[n] = s[n + 1 - 1]
    BY <1>1, <2>1, WindowOf
  <2> HIDE DEF a
  <2>3. ASSUME NEW i \in 1..p PROVE a[i].role = "system"
    <3>1. i + 1 - 1 = i /\ i \in 1..Len(a)  BY <1>1, <2>2
    <3> QED  BY <3>1, <2>2, <1>1
  <2> QED  BY <2>2, <2>3
<1> HIDE DEF a, b, c
<1>3. p \in Nat /\ Len(e) \in Nat /\ Len(w) \in Nat  BY <1>1, PositionsAre
<1>4. b \in Seq(Messages) /\ Len(b) = p + Len(e)  BY <1>1, <1>2, Parts
<1>5. <<s[q]>> \in Seq(Messages) /\ Len(<<s[q]>>) = 1 /\ <<s[q]>>[1] = s[q]
  BY <1>1, LegalQuestion
<1>6. c \in Seq(Messages) /\ Len(c) = p + Len(e) + 1 /\ c[p + Len(e) + 1] = s[q]
  <2> DEFINE m == <<s[q]>>
  <2>1. m \in Seq(Messages) /\ Len(m) = 1 /\ m[1] = s[q] /\ c = b \o m  BY <1>1, <1>5
  <2> HIDE DEF m
  <2>2. /\ c \in Seq(Messages) /\ Len(c) = Len(b) + Len(m)
        /\ \A x \in 1..Len(b) + Len(m) : c[x] = IF x <= Len(b) THEN b[x] ELSE m[x - Len(b)]
    BY <2>1, <1>4, Parts
  <2>3. /\ Len(b) + 1 \in 1..Len(b) + Len(m) /\ ~(Len(b) + 1 <= Len(b))
        /\ (Len(b) + 1) - Len(b) = 1
    BY <1>3, <1>4, <2>1
  <2> QED  BY <1>4, <2>1, <2>2, <2>3
<1>7. /\ Trim(s) = c \o w /\ Trim(s) \in Seq(Messages)
      /\ Len(Trim(s)) = p + Len(e) + 1 + Len(w)
  <2>1. Trim(s) = c \o w  BY <1>1
  <2>2. c \o w \in Seq(Messages) /\ Len(c \o w) = Len(c) + Len(w)  BY <1>1, <1>6, Parts
  <2> QED  BY <2>1, <2>2, <1>6
<1> QED  BY <1>1, <1>2, <1>3, <1>4, <1>6, <1>7 DEF a, b, c, Parted

\* What is sent is legal, if what it is cut from is but for results at its
\* beginning.
LEMMA TrimIsLegal ==
  ASSUME NEW s \in Seq(Messages), NEW q, Question(s, q), Replayable(s, Pinned(s))
  PROVE  Trim(s) \in Seq(Messages) /\ Legal(Trim(s))
<1>1. PICK p, e, w : Sent(s, q, p, e, w)  BY TrimIs
<1>2. /\ Len(s) \in Nat /\ q \in 1..Len(s) /\ s[q].role = "user"
      /\ Instructions(s, p) /\ p \in 0..Len(s) /\ p < q
      /\ e \in Seq(Messages) /\ w \in Seq(Messages)
  BY <1>1, PositionsAre DEF Sent, Instructions, Question
<1>3. Replayable(s, p)
  <2>1. p = Pinned(s)  BY <1>2, PinnedIs, PinnedIsUnique
  <2> QED  BY <2>1
<1>4. Legal(e)
  <2>1. ASSUME NEW i \in (p + 1)..q PROVE Legal(DropLeadingOrphan(SubSeq(s, i, q - 1)))
    <3>1. /\ i \in (p + 1)..(Len(s) + 1) /\ q - 1 \in p..Len(s) /\ (q - 1) + 1 = q
          /\ s[(q - 1) + 1].role # "tool"
      BY <1>2
    <3> QED  BY <1>2, <1>3, <3>1, CutIsLegal
  <2> QED  BY <1>1, <2>1, LegalNothing DEF Sent
<1>5. Legal(w)
  <2>1. ASSUME NEW k \in (q + 1)..(Len(s) + 1)
        PROVE  Legal(DropLeadingOrphan(SubSeq(s, k, Len(s))))
    <3>1. k \in (p + 1)..(Len(s) + 1) /\ Len(s) \in p..Len(s) /\ ~(Len(s) < Len(s))
      BY <1>2
    <3> QED  BY <1>2, <1>3, <3>1, CutIsLegal
  <2> QED  BY <1>1, <2>1 DEF Sent
<1> DEFINE a == SubSeq(s, 1, p)
           b == Before(s, p, e)
           c == UpTo(s, q, p, e)
<1>6. /\ a \in Seq(Messages) /\ Len(a) = p /\ \A i \in 1..p : a[i].role = "system"
      /\ s[q] \in Messages /\ s[q].role = "user"
      /\ b \in Seq(Messages) /\ c \in Seq(Messages)
      /\ Trim(s) = c \o w /\ Trim(s) \in Seq(Messages)
      /\ b = a \o e /\ c = b \o <<s[q]>>
  <2>1. Parted(s, q, p, e, w)  BY <1>1, SentIsParted
  <2> QED  BY <2>1 DEF Parted
<1> HIDE DEF a, b, c
<1>7. Legal(a)  BY <1>6, LegalInstructions
<1>8. Legal(b)  BY <1>2, <1>4, <1>6, <1>7, LegalAfterLegal
<1>9. Legal(c)
  <2>1. <<s[q]>> \in Seq(Messages) /\ Legal(<<s[q]>>)  BY <1>6, LegalQuestion
  <2> QED  BY <2>1, <1>6, <1>8, LegalAfterLegal
<1>10. Legal(c \o w)  BY <1>2, <1>5, <1>6, <1>9, LegalAfterLegal
<1> QED  BY <1>6, <1>10

\* The question stays the newest one.
LEMMA TrimKeepsQuestion ==
  ASSUME NEW s \in Seq(Messages), NEW q, Question(s, q)
  PROVE  /\ Trim(s) \in Seq(Messages)
         /\ \E t : Question(Trim(s), t) /\ Trim(s)[t] = s[q]
<1>1. PICK p, e, w : Sent(s, q, p, e, w)  BY TrimIs
<1> DEFINE c == UpTo(s, q, p, e)
           t == p + Len(e) + 1
<1>2. /\ c \in Seq(Messages) /\ Len(c) = t /\ c[t] = s[q] /\ s[q].role = "user"
      /\ Trim(s) = c \o w /\ Trim(s) \in Seq(Messages) /\ Len(Trim(s)) = t + Len(w)
      /\ p \in Nat /\ Len(e) \in Nat /\ Len(w) \in Nat
  <2>1. Parted(s, q, p, e, w)  BY <1>1, SentIsParted
  <2> QED  BY <2>1 DEF Parted
<1>3. w \in Seq(Messages) /\ t \in Nat \ {0}
  BY <1>1, <1>2 DEF Sent
<1>4. ASSUME NEW x \in 1..Len(w) PROVE w[x].role # "user"
  <2>1. /\ Len(s) \in Nat /\ q \in 1..Len(s)
        /\ \A i \in (q + 1)..Len(s) : s[i].role # "user"
    BY PositionsAre DEF Question
  <2>2. PICK k \in (q + 1)..(Len(s) + 1) : w = DropLeadingOrphan(SubSeq(s, k, Len(s)))
    BY <1>1 DEF Sent
  <2> DEFINE n == SubSeq(s, k, Len(s))
  <2>3. n \in Seq(Messages) /\ \A y \in 1..Len(n) : n[y].role # "user"
    <3>1. k \in 1..Len(s) + 1 /\ Len(s) \in 0..Len(s)  BY <2>1
    <3>2. /\ n \in Seq(Messages) /\ Len(n) = IF k <= Len(s) THEN Len(s) - k + 1 ELSE 0
          /\ \A y \in 1..Len(n) : n[y] = s[y + k - 1]
      BY <3>1, WindowOf
    <3> HIDE DEF n
    <3>3. ASSUME NEW y \in 1..Len(n) PROVE n[y].role # "user"
      <4>1. y + k - 1 \in (q + 1)..Len(s)  BY <2>1, <3>2
      <4> QED  BY <4>1, <3>2, <2>1
    <3> QED  BY <3>2, <3>3
  <2> HIDE DEF n
  <2>4. w = DropLeadingOrphan(n)  BY <2>2 DEF n
  <2>5. CASE w = << >>
    BY <2>5, CostOfNothing
  <2>6. CASE \E f \in 1..Len(n) : w = SubSeq(n, f, Len(n))
    <3>1. PICK f \in 1..Len(n) : w = SubSeq(n, f, Len(n))  BY <2>6
    <3>2. Len(n) \in Nat /\ f \in 1..Len(n) + 1 /\ Len(n) \in 0..Len(n) /\ f <= Len(n)
      BY <2>3, PositionsAre
    <3>3. Len(w) = Len(n) - f + 1 /\ \A y \in 1..Len(w) : w[y] = n[y + f - 1]
      BY <2>3, <3>1, <3>2, WindowOf
    <3>4. x + f - 1 \in 1..Len(n)  BY <3>2, <3>3
    <3> QED  BY <2>3, <3>3, <3>4
  <2> QED  BY <2>3, <2>4, <2>5, <2>6, OrphansDropped
<1> HIDE DEF c, t
<1>5. /\ \A x \in 1..t + Len(w) :
           Trim(s)[x] = IF x <= t THEN c[x] ELSE w[x - t]
      /\ t \in 1..t + Len(w)
  BY <1>2, <1>3, Parts
<1>6. Trim(s)[t] = s[q]  BY <1>2, <1>3, <1>5
<1>7. ASSUME NEW x \in (t + 1)..(t + Len(w)) PROVE Trim(s)[x].role # "user"
  <2>1. x \in 1..t + Len(w) /\ ~(x <= t) /\ x - t \in 1..Len(w)  BY <1>2, <1>3
  <2> QED  BY <2>1, <1>4, <1>5
<1>8. Question(Trim(s), t)  BY <1>2, <1>5, <1>6, <1>7 DEF Question
<1> QED  BY <1>2, <1>6, <1>8

\* And it fits, unless the instructions and the question alone do not.
LEMMA TrimFits ==
  ASSUME NEW s \in Seq(Messages), NEW q, Question(s, q)
  PROVE  Cost(Trim(s)) <= Budget \/ Len(Trim(s)) = Pinned(Trim(s)) + 1
<1>1. PICK p, e, w : Sent(s, q, p, e, w)  BY TrimIs
<1> DEFINE a == SubSeq(s, 1, p)
           b == Before(s, p, e)
           c == UpTo(s, q, p, e)
<1>2. /\ a \in Seq(Messages) /\ Len(a) = p /\ \A i \in 1..p : a[i].role = "system"
      /\ s[q] \in Messages /\ s[q].role = "user"
      /\ b \in Seq(Messages) /\ c \in Seq(Messages) /\ Len(b) = p + Len(e)
      /\ b = a \o e /\ c = b \o <<s[q]>>
      /\ Len(c) = p + Len(e) + 1 /\ c[p + Len(e) + 1] = s[q]
      /\ Trim(s) = c \o w /\ Trim(s) \in Seq(Messages)
      /\ Len(Trim(s)) = p + Len(e) + 1 + Len(w)
      /\ p \in Nat /\ Len(e) \in Nat /\ Len(w) \in Nat
  <2>1. Parted(s, q, p, e, w)  BY <1>1, SentIsParted
  <2> QED  BY <2>1 DEF Parted
<1>3. e \in Seq(Messages) /\ w \in Seq(Messages)  BY <1>1 DEF Sent
<1>4. <<s[q]>> \in Seq(Messages) /\ Cost(<<s[q]>>) = 1
  BY <1>2, LegalQuestion, CostOfQuestion
<1> HIDE DEF a, b, c
<1>5. /\ Cost(b) = Cost(a) + Cost(e) /\ Cost(c) = Cost(b) + 1
      /\ Cost(Trim(s)) = Cost(c) + Cost(w)
  <2>1. Cost(b) = Cost(a) + Cost(e)  BY <1>2, <1>3, CostTogether
  <2>2. Cost(c) = Cost(b) + Cost(<<s[q]>>)  BY <1>2, <1>4, CostTogether
  <2>3. Cost(Trim(s)) = Cost(c) + Cost(w)
    <3>1. Cost(c \o w) = Cost(c) + Cost(w)  BY <1>2, <1>3, CostTogether
    <3> QED  BY <3>1, <1>2
  <2> QED  BY <2>1, <2>2, <2>3, <1>4
<1>6. Cost(a) \in Nat /\ Cost(e) \in Nat /\ Cost(w) \in Nat
  BY <1>2, <1>3, CostIs
<1>7. CASE Cost(a) + Cost(e) + 1 + Cost(w) <= Budget
  BY <1>5, <1>6, <1>7
<1>8. CASE Cost(e) = 0 /\ Cost(w) = 0
  <2>1. Len(e) = 0 /\ Len(w) = 0
    <3>1. Len(e) <= Cost(e) /\ Len(w) <= Cost(w)  BY <1>3, CostIs
    <3> QED  BY <3>1, <1>2, <1>8
  <2>2. Len(Trim(s)) = p + 1  BY <1>2, <2>1
  <2>3. /\ p + 1 \in 1..(p + 1) + 0
        /\ \A x \in 1..Len(c) + Len(w) :
             Trim(s)[x] = IF x <= Len(c) THEN c[x] ELSE w[x - Len(c)]
    BY <1>2, <1>3, Parts
  <2>4. Trim(s)[p + 1].role # "system"
    <3>1. p + 1 \in 1..Len(c) + Len(w) /\ p + 1 <= Len(c) /\ p + Len(e) + 1 = p + 1
      BY <1>2, <2>1
    <3> QED  BY <1>2, <2>3, <3>1
  <2>5. ASSUME NEW i \in 1..p PROVE Trim(s)[i].role = "system"
    <3>1. i \in 1..Len(c) + Len(w) /\ i <= Len(c) /\ i \in 1..Len(b) + 1 /\ i <= Len(a)
          /\ i <= Len(b) /\ i \in 1..Len(a) + Len(e) /\ i \in 1..Len(b) + Len(<<s[q]>>)
      <4>1. Len(<<s[q]>>) = 1  BY <1>2, LegalQuestion
      <4>2. Len(a) = p /\ Len(b) = p /\ Len(c) = p + 1 /\ Len(e) = 0 /\ Len(w) = 0 /\ p \in Nat
        BY <1>2, <2>1
      <4> QED  BY <4>1, <4>2
    <3>2. Trim(s)[i] = c[i]  BY <2>3, <3>1
    <3>3. c[i] = b[i]  BY <3>1, <1>2, <1>3, <1>4, Parts
    <3>4. b[i] = a[i]  BY <3>1, <1>2, <1>3, Parts
    <3> QED  BY <3>2, <3>3, <3>4, <1>2
  <2>6. Instructions(Trim(s), p)
    <3>1. p \in 0..Len(Trim(s))  BY <1>2, <2>2
    <3> QED  BY <3>1, <2>4, <2>5 DEF Instructions
  <2>7. p = Pinned(Trim(s))  BY <1>2, <2>6, PinnedIs, PinnedIsUnique
  <2> QED  BY <2>2, <2>7
<1> QED  BY <1>1, <1>7, <1>8 DEF Sent, a

-----------------------------------------------------------------------------
(* The invariant.                                                          *)

\* A conversation that is legal but for its last announcement, made by the
\* message at that place, whose n calls are answered up to the k-th.
HalfAnswered(c, place, n, k) ==
  \E b \in 1..Len(c) :
    /\ c[b].role = "assistant" /\ c[b].at = place /\ c[b].calls = n
    /\ k \in 1..n /\ Len(c) = b + k - 1
    /\ \A i \in 1..(k - 1) : c[b + i].role = "tool" /\ c[b + i].of = place /\ c[b + i].call = i
    /\ \A i \in 1..Len(c) : /\ c[i].role = "assistant" /\ i # b => Answered(c, i)
                            /\ c[i].role = "tool" => Announced(c, i)

Turns == [history : Seq(Messages), sound : BOOLEAN, request : Nat, known : Nat, fold : Nat,
          round : Nat, made : Nat, announced : Nat, calls : Nat, next : Nat]

ChatTypeOK ==
  /\ stored \in Seq(Messages)
  /\ summarised \in 0..Len(stored)
  /\ pc \in [Sockets -> {"closed", "idle", "compacting", "folding", "asking", "calling"}]
  /\ turn \in [Sockets -> Turns]
  /\ torn \in BOOLEAN

\* What is stored knows its place, and instructions are not stored.
Placed(c) == \A i \in 1..Len(c) : c[i].at = i /\ c[i].role # "system"

\* Instructions, the messages of c from o + 1 to f, and a question.
Excerpt(h, c, f, p, o, d) ==
  /\ h \in Seq(Messages) /\ Len(h) = p + d + 1
  /\ p \in Nat /\ o \in Nat /\ d \in Nat /\ o + d = f
  /\ \A i \in 1..p : h[i].role = "system"
  /\ \A x \in 1..d : h[p + x] = c[o + x]
  /\ h[p + d + 1].role = "user"
  /\ d > 0 => c[o + 1].role # "tool"

Excerpted(h, c, f) == \E p, o, d : Excerpt(h, c, f, p, o, d)

\* The messages up to the f-th, as a legal conversation begins.
Kept(c, f) ==
  \A i \in 1..f : /\ c[i].role = "assistant" => Answered(c, i)
                  /\ c[i].role = "tool" => Announced(c, i)

\* What a summary is asked with: an end of what is folded, which fits.
AsksSummary(t, c) ==
  /\ t.fold \in 1..Len(c) /\ Excerpted(t.history, c, t.fold)
  /\ t.sound => Kept(c, t.fold)
  /\ Cost(t.history) <= Budget \/ Len(t.history) = Pinned(t.history) + 1

\* A turn that waits for a summary keeps its question out of it.
Folds(s) ==
  /\ pc[s] = "compacting" =>
       /\ turn[s].request \in 1..Len(stored) /\ stored[turn[s].request].role = "user"
       /\ turn[s].fold < turn[s].request /\ turn[s].known < turn[s].request
  /\ pc[s] \in Folding => AsksSummary(turn[s], stored)

\* What a turn sends has a newest question, its own if no other turn ran.
Asks(s) ==
  pc[s] \in {"asking", "calling"} =>
    \E q \in 1..Len(turn[s].history) :
      /\ Question(turn[s].history, q)
      /\ ~torn => turn[s].history[q].at = turn[s].request

\* It is legal, but for the calls that are being answered, and it fits.
Sends(s) ==
  /\ pc[s] = "asking" =>
       /\ turn[s].sound => Legal(turn[s].history)
       /\ \/ Cost(turn[s].history) <= Budget
          \/ Len(turn[s].history) = Pinned(turn[s].history) + 1
  /\ pc[s] = "calling" =>
       /\ turn[s].next \in 1..turn[s].calls
       /\ turn[s].sound =>
            HalfAnswered(turn[s].history, turn[s].announced, turn[s].calls, turn[s].next)

\* So is what is stored while no other turn runs.
Stores(s) ==
  /\ ~torn /\ pc[s] \in InTurn => Question(stored, turn[s].request)
  /\ ~torn /\ pc[s] = "calling" =>
       HalfAnswered(stored, turn[s].announced, turn[s].calls, turn[s].next)

TurnInv(s) == Folds(s) /\ Asks(s) /\ Sends(s) /\ Stores(s)

\* One turn at a time, and what is stored is legal unless it is calling.
OneTurn == ~torn => \A s, t \in Sockets : pc[s] \in InTurn /\ pc[t] \in InTurn => s = t

Settled == ~torn /\ (\A s \in Sockets : pc[s] # "calling") => Legal(stored)

ChatInv ==
  /\ ChatTypeOK /\ Placed(stored) /\ OneTurn /\ Settled
  /\ \A s \in Sockets : TurnInv(s)

-----------------------------------------------------------------------------
(* What is appended.                                                       *)

LEMMA Appended ==
  ASSUME NEW s \in Seq(Messages), NEW m \in Messages
  PROVE  LET c == Append(s, m)
         IN  /\ c \in Seq(Messages) /\ Len(c) = Len(s) + 1 /\ Window(s, c, 0)
             /\ c[Len(s) + 1] = m /\ \A x \in 1..Len(s) : c[x] = s[x]
<1> DEFINE c == Append(s, m)
<1>1. /\ c \in Seq(Messages) /\ Len(c) = Len(s) + 1 /\ Len(s) \in Nat
      /\ c[Len(s) + 1] = m /\ \A x \in 1..Len(s) : c[x] = s[x]
  OBVIOUS
<1> HIDE DEF c
<1>2. ASSUME NEW x \in 1..Len(s) PROVE s[x] = c[x + 0]
  <2>1. x + 0 = x  BY <1>1
  <2> QED  BY <1>1, <2>1
<1>3. Window(s, c, 0)  BY <1>1, <1>2 DEF Window
<1> QED  BY <1>1, <1>3 DEF c

\* What was answered or announced stays so.
LEMMA AppendKeeps ==
  ASSUME NEW s \in Seq(Messages), NEW m \in Messages, NEW i \in 1..Len(s)
  PROVE  /\ Append(s, m)[i] = s[i]
         /\ Answered(s, i) => Answered(Append(s, m), i)
         /\ Announced(s, i) => Announced(Append(s, m), i)
<1> DEFINE c == Append(s, m)
<1>1. Window(s, c, 0) /\ c[i] = s[i] /\ i + 0 = i
  <2>1. i + 0 = i  BY PositionsAre
  <2> QED  BY <2>1, Appended
<1> HIDE DEF c
<1>2. Answered(s, i) => Answered(c, i)
  <2>1. Answered(s, i) => Answered(c, i + 0)  BY <1>1, AnsweredInTheWhole
  <2> QED  BY <1>1, <2>1
<1>3. Announced(s, i) => Announced(c, i)
  <2>1. Announced(s, i) => Announced(c, i + 0)  BY <1>1, AnnouncedInTheWhole
  <2> QED  BY <1>1, <2>1
<1> QED  BY <1>1, <1>2, <1>3 DEF c

\* A question, instructions and an answer without calls keep a conversation
\* legal.
LEMMA LegalGoesOn ==
  ASSUME NEW s \in Seq(Messages), NEW m \in Messages, Legal(s),
         \/ m.role \in {"user", "system"}
         \/ m.role = "assistant" /\ m.calls = 0
  PROVE  Legal(Append(s, m))
<1> DEFINE c == Append(s, m)
           e == Len(s) + 1
<1>1. /\ c \in Seq(Messages) /\ Len(c) = e /\ c[e] = m /\ Len(s) \in Nat
  BY Appended, PositionsAre
<1>2. SUFFICES ASSUME NEW i \in 1..Len(c)
               PROVE  /\ c[i].role = "assistant" => Answered(c, i)
                      /\ c[i].role = "tool" => Announced(c, i)
  <2> HIDE DEF c
  <2>1. Legal(c)  BY <1>1, <1>2, LegalIs
  <2> QED  BY <2>1 DEF c
<1>3. CASE i = e
  <2> HIDE DEF c
  <2>1. m.calls = 0 => Answered(c, e)  BY <1>1 DEF Answered
  <2> QED  BY <1>1, <1>3, <2>1
<1>4. CASE i # e
  <2>1. i \in 1..Len(s)  BY <1>1, <1>4
  <2>2. /\ s[i].role = "assistant" => Answered(s, i)
        /\ s[i].role = "tool" => Announced(s, i)
    BY <2>1, LegalIs
  <2>3. /\ c[i] = s[i] /\ (Answered(s, i) => Answered(c, i))
        /\ (Announced(s, i) => Announced(c, i))
    BY <2>1, AppendKeeps
  <2> QED  BY <2>2, <2>3
<1> QED  BY <1>3, <1>4

\* An announcement is to be answered.
LEMMA CallsBegin ==
  ASSUME NEW s \in Seq(Messages), NEW m \in Messages, Legal(s),
         m.role = "assistant", m.calls >= 1
  PROVE  HalfAnswered(Append(s, m), m.at, m.calls, 1)
<1> DEFINE c == Append(s, m)
           b == Len(s) + 1
<1>1. /\ c \in Seq(Messages) /\ Len(c) = b /\ c[b] = m /\ Len(s) \in Nat
      /\ m.calls \in Nat /\ b \in 1..Len(c)
  BY Appended, PositionsAre DEF Messages
<1>2. ASSUME NEW i \in 1..Len(c)
      PROVE  /\ c[i].role = "assistant" /\ i # b => Answered(c, i)
             /\ c[i].role = "tool" => Announced(c, i)
  <2>1. CASE i = b
    <3> HIDE DEF c
    <3> QED  BY <1>1, <2>1
  <2>2. CASE i # b
    <3>1. i \in 1..Len(s)  BY <1>1, <2>2
    <3>2. /\ s[i].role = "assistant" => Answered(s, i)
          /\ s[i].role = "tool" => Announced(s, i)
      BY <3>1, LegalIs
    <3>3. /\ c[i] = s[i] /\ (Answered(s, i) => Answered(c, i))
          /\ (Announced(s, i) => Announced(c, i))
      BY <3>1, AppendKeeps
    <3> QED  BY <3>2, <3>3
  <2> QED  BY <2>1, <2>2
<1> HIDE DEF c, b
<1>3. 1 \in 1..m.calls /\ Len(c) = b + 1 - 1 /\ \A i \in 1..(1 - 1) : FALSE
  <2>1. b \in Nat  BY <1>1
  <2> QED  BY <1>1, <2>1
<1>4. HalfAnswered(c, m.at, m.calls, 1)  BY <1>1, <1>2, <1>3 DEF HalfAnswered
<1> QED  BY <1>4 DEF c

\* A result is announced, and after the last one the conversation is legal.
LEMMA CallsGoOn ==
  ASSUME NEW s \in Seq(Messages), NEW m \in Messages,
         NEW place \in Nat, NEW n \in Nat, NEW k \in Nat, HalfAnswered(s, place, n, k),
         m.role = "tool", m.of = place, m.call = k
  PROVE  /\ k < n => HalfAnswered(Append(s, m), place, n, k + 1)
         /\ k = n => Legal(Append(s, m))
<1> DEFINE c == Append(s, m)
           e == Len(s) + 1
<1>1. PICK b \in 1..Len(s) :
        /\ s[b].role = "assistant" /\ s[b].at = place /\ s[b].calls = n
        /\ k \in 1..n /\ Len(s) = b + k - 1
        /\ \A i \in 1..(k - 1) : s[b + i].role = "tool" /\ s[b + i].of = place /\ s[b + i].call = i
        /\ \A i \in 1..Len(s) : /\ s[i].role = "assistant" /\ i # b => Answered(s, i)
                                /\ s[i].role = "tool" => Announced(s, i)
  BY DEF HalfAnswered
<1>2. /\ c \in Seq(Messages) /\ Len(c) = e /\ c[e] = m /\ Len(s) \in Nat
      /\ \A x \in 1..Len(s) : c[x] = s[x]
  BY Appended, PositionsAre
<1>3. ASSUME NEW i \in 1..Len(s)
      PROVE  /\ c[i].role = "assistant" /\ i # b => Answered(c, i)
             /\ c[i].role = "tool" => Announced(c, i)
  <2>1. /\ c[i] = s[i] /\ (Answered(s, i) => Answered(c, i))
        /\ (Announced(s, i) => Announced(c, i))
    BY AppendKeeps
  <2> QED  BY <1>1, <2>1
<1> HIDE DEF c, e
<1>4. e = b + k /\ b \in 1..Len(c) /\ b \in Nat /\ b \in 1..(e - 1) /\ c[b] = s[b]
  <2>1. e = Len(s) + 1  BY DEF e
  <2> QED  BY <2>1, <1>1, <1>2
<1>5. ASSUME NEW i \in 1..k
      PROVE  c[b + i].role = "tool" /\ c[b + i].of = place /\ c[b + i].call = i
  <2>1. CASE i = k  BY <2>1, <1>2, <1>4
  <2>2. CASE i # k
    <3>1. i \in 1..(k - 1) /\ b + i \in 1..Len(s)  BY <2>2, <1>1, <1>2
    <3>2. c[b + i] = s[b + i]  BY <3>1, <1>2
    <3>3. s[b + i].role = "tool" /\ s[b + i].of = place /\ s[b + i].call = i  BY <3>1, <1>1
    <3> QED  BY <3>2, <3>3
  <2> QED  BY <2>1, <2>2
<1>6. Announced(c, e)
  <2>1. ASSUME NEW x \in (b + 1)..e PROVE c[x].role = "tool"
    <3>1. b \in Nat /\ k \in Nat /\ e = b + k /\ x \in Int /\ b + 1 <= x /\ x <= e  BY <1>4
    <3>2. x - b \in 1..k /\ b + (x - b) = x  BY ONLY <3>1
    <3> QED  BY <3>2, <1>5
  <2>2. c[b].role = "assistant" /\ c[b].at = c[e].of  BY <1>1, <1>2, <1>4
  <2>3. b \in 1..(e - 1)  BY <1>4
  <2> QED  BY <2>1, <2>2, <2>3 DEF Announced
<1>7. ASSUME NEW i \in 1..Len(c)
      PROVE  /\ c[i].role = "assistant" /\ i # b => Answered(c, i)
             /\ c[i].role = "tool" => Announced(c, i)
  <2>1. CASE i = e  BY <2>1, <1>2, <1>6
  <2>2. CASE i # e
    <3>1. i \in 1..Len(s)
      <4>1. e = Len(s) + 1  BY DEF e
      <4> QED  BY <4>1, <2>2, <1>2
    <3> QED  BY <3>1, <1>3
  <2> QED  BY <2>1, <2>2
<1>8. ASSUME k < n PROVE HalfAnswered(c, place, n, k + 1)
  <2>1. k + 1 \in 1..n /\ Len(c) = b + (k + 1) - 1 /\ (k + 1) - 1 = k
    BY <1>8, <1>1, <1>2, <1>4
  <2> QED  BY <2>1, <1>1, <1>4, <1>5, <1>7 DEF HalfAnswered
<1>9. ASSUME k = n PROVE Legal(c)
  <2>1. Answered(c, b)
    <3>1. c[b].calls = k /\ c[b].at = place /\ b + k <= Len(c)  BY <1>9, <1>1, <1>2, <1>4
    <3> QED  BY <3>1, <1>5 DEF Answered
  <2> QED  BY <2>1, <1>2, <1>7, LegalIs
<1> QED  BY <1>8, <1>9 DEF c

\* The newest question stays it until there is another.
LEMMA QuestionGoesOn ==
  ASSUME NEW s \in Seq(Messages), NEW m \in Messages
  PROVE  /\ m.role = "user" => Question(Append(s, m), Len(s) + 1)
         /\ \A q : m.role # "user" /\ Question(s, q)
              => Question(Append(s, m), q) /\ Append(s, m)[q] = s[q]
<1> DEFINE c == Append(s, m)
           e == Len(s) + 1
<1>1. /\ Len(c) = e /\ c[e] = m /\ Len(s) \in Nat /\ \A x \in 1..Len(s) : c[x] = s[x]
  BY Appended, PositionsAre
<1> HIDE DEF c
<1>2. ASSUME m.role = "user" PROVE Question(c, e)
  BY <1>1, <1>2 DEF Question
<1>3. ASSUME NEW q, m.role # "user", Question(s, q) PROVE Question(c, q) /\ c[q] = s[q]
  <2>1. /\ q \in 1..Len(s) /\ s[q].role = "user"
        /\ \A i \in (q + 1)..Len(s) : s[i].role # "user"
    BY <1>3 DEF Question
  <2>2. ASSUME NEW i \in (q + 1)..Len(c) PROVE c[i].role # "user"
    <3>1. CASE i = e  BY <3>1, <1>1, <1>3
    <3>2. CASE i # e
      <4>1. i \in (q + 1)..Len(s) /\ i \in 1..Len(s)  BY <3>2, <2>1, <1>1
      <4> QED  BY <4>1, <2>1, <1>1
    <3> QED  BY <3>1, <3>2
  <2>3. q \in 1..Len(c)  BY <2>1, <1>1
  <2> QED  BY <2>1, <2>2, <2>3, <1>1 DEF Question
<1> QED  BY <1>2, <1>3 DEF c

-----------------------------------------------------------------------------
(* What a turn begins with.                                                *)

\* The instructions and the messages that the summary does not stand for.
LEMMA BuildIs ==
  ASSUME NEW s \in Seq(Messages), Placed(s), NEW n \in Nat, n < Len(s)
  PROVE  \E o \in {1, 2} :
           /\ Build(s, n) \in Seq(Messages) /\ Len(Build(s, n)) = o + Len(s) - n
           /\ Instructions(Build(s, n), o)
           /\ Window(SubSeq(s, n + 1, Len(s)), Build(s, n), o)
           /\ SubSeq(s, n + 1, Len(s)) \in Seq(Messages)
           /\ Len(SubSeq(s, n + 1, Len(s))) = Len(s) - n
           /\ \A x \in 1..Len(s) - n : SubSeq(s, n + 1, Len(s))[x] = s[x + n]
<1> DEFINE a == <<SystemMessage>> \o (IF n > 0 THEN <<SystemMessage>> ELSE << >>)
           o == IF n > 0 THEN 2 ELSE 1
           r == SubSeq(s, n + 1, Len(s))
           c == Build(s, n)
<1>1. SystemMessage \in Messages /\ SystemMessage.role = "system"  BY MessagesAre
<1>2. a \in Seq(Messages) /\ Len(a) = o /\ \A i \in 1..o : a[i].role = "system"
  BY <1>1
<1>3. c = a \o r  BY DEF Build
<1>4. o \in {1, 2} /\ Len(s) \in Nat  BY PositionsAre
<1>5. /\ r \in Seq(Messages) /\ Len(r) = Len(s) - n
      /\ \A x \in 1..Len(s) - n : r[x] = s[x + n]
  <2>1. n + 1 \in 1..Len(s) + 1 /\ Len(s) \in 0..Len(s) /\ n + 1 <= Len(s)
        /\ Len(s) - (n + 1) + 1 = Len(s) - n
    BY <1>4
  <2>2. r \in Seq(Messages) /\ Len(r) = Len(s) - n /\ \A x \in 1..Len(r) : r[x] = s[x + (n + 1) - 1]
    BY <2>1, WindowOf
  <2> HIDE DEF r
  <2>3. ASSUME NEW x \in 1..Len(s) - n PROVE r[x] = s[x + n]
    <3>1. x + (n + 1) - 1 = x + n /\ x \in 1..Len(r)  BY <1>4, <2>2
    <3> QED  BY <3>1, <2>2
  <2> QED  BY <2>2, <2>3
<1> HIDE DEF a, c, o, r
<1>6. /\ c \in Seq(Messages) /\ Len(c) = o + Len(r) /\ Window(r, c, o)
      /\ \A x \in 1..o + Len(r) : c[x] = IF x <= o THEN a[x] ELSE r[x - o]
  BY <1>2, <1>3, <1>5, Parts
<1>7. Instructions(c, o)
  <2>1. o \in 0..Len(c) /\ \A i \in 1..o : i \in 1..o + Len(r) /\ i <= o
    BY <1>4, <1>5, <1>6
  <2>2. \A i \in 1..o : c[i].role = "system"  BY <2>1, <1>2, <1>6
  <2>3. c[o + 1].role # "system"
    <3>1. /\ o + 1 \in 1..o + Len(r) /\ ~(o + 1 <= o) /\ (o + 1) - o = 1
          /\ 1 \in 1..Len(s) - n /\ 1 + n \in 1..Len(s)
      BY <1>4, <1>5
    <3>2. c[o + 1] = s[1 + n]  BY <3>1, <1>5, <1>6
    <3> QED  BY <3>1, <3>2 DEF Placed
  <2> QED  BY <2>1, <2>2, <2>3 DEF Instructions
<1>8. Len(c) = o + Len(s) - n  BY <1>4, <1>5, <1>6
<1> QED  BY <1>4, <1>5, <1>6, <1>7, <1>8 DEF c, r

\* It can be replayed if what the summary does not stand for can.
LEMMA BuildIsReplayable ==
  ASSUME NEW s \in Seq(Messages), Placed(s), NEW n \in Nat, n < Len(s),
         Legal(DropLeadingOrphan(SubSeq(s, n + 1, Len(s))))
  PROVE  Replayable(Build(s, n), Pinned(Build(s, n)))
<1> DEFINE r == SubSeq(s, n + 1, Len(s))
           c == Build(s, n)
           d == DropLeadingOrphan(r)
<1>1. PICK o \in {1, 2} :
        /\ c \in Seq(Messages) /\ Len(c) = o + Len(s) - n
        /\ Instructions(c, o) /\ Window(r, c, o)
        /\ r \in Seq(Messages) /\ Len(r) = Len(s) - n
  BY BuildIs
<1>2. Legal(d) /\ Len(s) \in Nat /\ Len(c) \in Nat  BY <1>1, PositionsAre
<1>3. \/ d = << >> /\ \A i \in 1..Len(r) : r[i].role = "tool"
      \/ \E f \in 1..Len(r) : /\ d = SubSeq(r, f, Len(r)) /\ r[f].role # "tool"
                              /\ \A i \in 1..(f - 1) : r[i].role = "tool"
  <2> HIDE DEF r
  <2> QED  BY <1>1, OrphansDropped
<1> HIDE DEF c, d, r
<1>4. ASSUME NEW i \in (o + 1)..Len(c)
      PROVE  i - o \in 1..Len(r) /\ (i - o) + o = i /\ r[i - o] = c[i]
  <2>1. i - o \in 1..Len(r) /\ (i - o) + o = i  BY <1>1, <1>2
  <2>2. r[i - o] = c[(i - o) + o]  BY <2>1, <1>1 DEF Window
  <2> QED  BY <2>1, <2>2
<1>5. ASSUME \A i \in 1..Len(r) : r[i].role = "tool" PROVE Replayable(c, o)
  <2>1. ASSUME NEW i \in (o + 1)..Len(c) PROVE c[i].role = "tool"  BY <1>4, <1>5
  <2>2. ASSUME NEW i \in (o + 1)..Len(c)
        PROVE  c[i].role = "tool" /\ \A m \in (o + 1)..i : c[m].role = "tool"
    BY <1>1, <1>2, <2>1
  <2> QED  BY <2>2 DEF Replayable
<1>6. ASSUME NEW f \in 1..Len(r), d = SubSeq(r, f, Len(r)),
             \A i \in 1..(f - 1) : r[i].role = "tool"
      PROVE  Replayable(c, o)
  <2>1. f \in 1..Len(r) + 1 /\ Len(r) \in Nat /\ Len(r) \in 0..Len(r) /\ f <= Len(r)
    BY <1>1, <1>2
  <2>2. /\ d \in Seq(Messages) /\ Len(d) = Len(r) - f + 1
        /\ \A x \in 1..Len(d) : d[x] = r[x + f - 1]
    BY <1>1, <1>6, <2>1, WindowOf
  <2> DEFINE u == o + f - 1
  <2>3. u \in Nat /\ u + Len(d) = Len(c)  BY <1>1, <1>2, <2>1, <2>2
  <2>4. ASSUME NEW x \in 1..Len(d) PROVE d[x] = c[x + u]
    <3>1. x + f - 1 \in 1..Len(r) /\ (x + f - 1) + o = x + u  BY <2>1, <2>2
    <3>2. r[x + f - 1] = c[(x + f - 1) + o]  BY <3>1, <1>1 DEF Window
    <3> QED  BY <3>1, <3>2, <2>2
  <2>5. Window(d, c, u)  BY <1>1, <1>2, <2>2, <2>3, <2>4 DEF Window
  <2>6. ASSUME NEW i \in (o + 1)..Len(c)
        PROVE  /\ c[i].role = "assistant" => Answered(c, i)
               /\ c[i].role = "tool" => \/ Announced(c, i)
                                        \/ \A m \in (o + 1)..i : c[m].role = "tool"
    <3>1. CASE i <= u
      <4>1. ASSUME NEW m \in (o + 1)..i PROVE c[m].role = "tool"
        <5>1. m \in (o + 1)..Len(c) /\ m - o \in 1..(f - 1)  BY <3>1, <2>1, <2>3, <1>1
        <5> QED  BY <5>1, <1>4, <1>6
      <4>2. i \in (o + 1)..i  BY <1>1
      <4> QED  BY <4>1, <4>2
    <3>2. CASE i > u
      <4> DEFINE x == i - u
      <4>1. x \in 1..Len(d) /\ x + u = i  BY <3>2, <2>3, <1>2
      <4> HIDE DEF x, u
      <4>2. /\ d[x].role = "assistant" => Answered(d, x)
            /\ d[x].role = "tool" => Announced(d, x)
        BY <4>1, <2>2, <1>2, LegalIs
      <4>3. d[x] = c[i]  BY <4>1, <2>4
      <4>4. Answered(d, x) => Answered(c, i)
        <5>1. Answered(d, x) => Answered(c, x + u)  BY <4>1, <2>5, AnsweredInTheWhole
        <5> QED  BY <4>1, <5>1
      <4>5. Announced(d, x) => Announced(c, i)
        <5>1. Announced(d, x) => Announced(c, x + u)  BY <4>1, <2>5, AnnouncedInTheWhole
        <5> QED  BY <4>1, <5>1
      <4> QED  BY <4>2, <4>3, <4>4, <4>5
    <3>3. i <= u \/ i > u  BY <2>3
    <3> QED  BY <3>1, <3>2, <3>3
  <2> QED  BY <2>6 DEF Replayable
<1>7. o = Pinned(c)  BY <1>1, PinnedIs, PinnedIsUnique
<1>8. Replayable(c, o)  BY <1>3, <1>5, <1>6
<1> QED  BY <1>7, <1>8 DEF c

\* The first request of a turn, from a question that is not folded away.
LEMMA FirstRequest ==
  ASSUME NEW s \in Seq(Messages), Placed(s), NEW n \in Nat,
         NEW q \in 1..Len(s), n < q, s[q].role = "user"
  PROVE  LET h == Trim(Build(s, n))
         IN  /\ h \in Seq(Messages)
             /\ Legal(DropLeadingOrphan(SubSeq(s, n + 1, Len(s)))) => Legal(h)
             /\ \E t \in 1..Len(h) : Question(h, t) /\ (Question(s, q) => h[t] = s[q])
             /\ Cost(h) <= Budget \/ Len(h) = Pinned(h) + 1
<1> DEFINE r == SubSeq(s, n + 1, Len(s))
           c == Build(s, n)
           h == Trim(c)
<1>1. Len(s) \in Nat /\ n < Len(s)  BY PositionsAre
<1>2. PICK o \in {1, 2} :
        /\ c \in Seq(Messages) /\ Len(c) = o + Len(s) - n
        /\ Window(r, c, o) /\ Len(r) = Len(s) - n
        /\ \A x \in 1..Len(s) - n : r[x] = s[x + n]
  BY <1>1, BuildIs
<1>3. Legal(DropLeadingOrphan(SubSeq(s, n + 1, Len(s)))) => Replayable(c, Pinned(c))
  BY <1>1, BuildIsReplayable
<1> HIDE DEF r, c
<1>4. ASSUME NEW x \in (n + 1)..Len(s)
      PROVE  x - n + o \in 1..Len(c) /\ c[x - n + o] = s[x]
  <2>1. x - n \in 1..Len(s) - n /\ (x - n) + n = x /\ x - n + o \in 1..Len(c)
    <3>1. /\ Len(s) \in Nat /\ n \in Nat /\ o \in {1, 2} /\ Len(c) = o + Len(s) - n
          /\ x \in (n + 1)..Len(s)
      BY <1>1, <1>2
    <3> QED  BY ONLY <3>1
  <2>2. r[x - n] = s[(x - n) + n] /\ r[x - n] = c[(x - n) + o]
    BY <2>1, <1>2 DEF Window
  <2> QED  BY <2>1, <2>2
<1> DEFINE p == q - n + o
<1>5. q \in (n + 1)..Len(s) /\ p \in 1..Len(c) /\ c[p] = s[q]
  <2>1. q \in (n + 1)..Len(s)  BY <1>1
  <2> QED  BY <2>1, <1>4
<1>6. Question(s, q) => Question(c, p)
  <2> SUFFICES ASSUME Question(s, q), NEW i \in (p + 1)..Len(c) PROVE c[i].role # "user"
    BY <1>5 DEF Question
  <2>1. /\ i - o + n \in (q + 1)..Len(s) /\ i - o + n \in (n + 1)..Len(s)
        /\ (i - o + n) - n + o = i
    BY <1>1, <1>2
  <2> HIDE DEF p
  <2>2. c[(i - o + n) - n + o] = s[i - o + n]  BY <1>4, <2>1
  <2> QED  BY <2>1, <2>2 DEF Question
<1> HIDE DEF p
<1>7. PICK t0 : Question(c, t0) /\ (Question(s, q) => c[t0] = s[q])
  <2>1. CASE Question(s, q)  BY <2>1, <1>5, <1>6
  <2>2. CASE ~Question(s, q)
    <3>1. Question(c, RequestAt(c))  BY <1>2, <1>5, RequestIs
    <3> QED  BY <2>2, <3>1
  <2> QED  BY <2>1, <2>2
<1>8. /\ h \in Seq(Messages)
      /\ \E t : Question(h, t) /\ h[t] = c[t0]
  BY <1>2, <1>7, TrimKeepsQuestion
<1>9. Replayable(c, Pinned(c)) => Legal(h)  BY <1>2, <1>7, TrimIsLegal
<1>10. Cost(h) <= Budget \/ Len(h) = Pinned(h) + 1  BY <1>2, <1>7, TrimFits
<1> HIDE DEF h
<1>11. \E t \in 1..Len(h) : Question(h, t) /\ (Question(s, q) => h[t] = s[q])
  <2>1. PICK t : Question(h, t) /\ h[t] = c[t0]  BY <1>8
  <2>2. t \in 1..Len(h)  BY <2>1 DEF Question
  <2> QED  BY <2>1, <2>2, <1>7
<1> QED  BY <1>3, <1>8, <1>9, <1>10, <1>11 DEF h, c

\* Every other request, from the one before and what came of it.
LEMMA NextRequest ==
  ASSUME NEW c \in Seq(Messages), NEW q, Question(c, q)
  PROVE  LET h == Trim(c)
         IN  /\ h \in Seq(Messages)
             /\ Legal(c) => Legal(h)
             /\ \E t \in 1..Len(h) : Question(h, t) /\ h[t] = c[q]
             /\ Cost(h) <= Budget \/ Len(h) = Pinned(h) + 1
<1> DEFINE h == Trim(c)
<1>1. Legal(c) => Replayable(c, Pinned(c))
  <2> SUFFICES ASSUME Legal(c), NEW i \in (Pinned(c) + 1)..Len(c)
               PROVE  /\ c[i].role = "assistant" => Answered(c, i)
                      /\ c[i].role = "tool" => Announced(c, i)
    BY DEF Replayable
  <2>1. Pinned(c) \in 0..Len(c) /\ Len(c) \in Nat  BY PinnedIs, PositionsAre DEF Instructions
  <2>2. i \in 1..Len(c)  BY <2>1
  <2> QED  BY <2>2, LegalIs
<1>2. /\ h \in Seq(Messages)
      /\ \E t : Question(h, t) /\ h[t] = c[q]
  BY TrimKeepsQuestion
<1>3. Legal(c) => Legal(h)  BY <1>1, TrimIsLegal
<1>4. Cost(h) <= Budget \/ Len(h) = Pinned(h) + 1  BY TrimFits
<1> HIDE DEF h
<1>5. \E t \in 1..Len(h) : Question(h, t) /\ h[t] = c[q]
  <2>1. PICK t : Question(h, t) /\ h[t] = c[q]  BY <1>2
  <2>2. t \in 1..Len(h)  BY <2>1 DEF Question
  <2> QED  BY <2>1, <2>2
<1> QED  BY <1>2, <1>3, <1>4, <1>5 DEF h

-----------------------------------------------------------------------------
(* What a summary is asked with.                                           *)

\* What is folded before it is trimmed
LEMMA TranscriptIs ==
  ASSUME NEW c \in Seq(Messages), Placed(c), NEW n \in Nat, NEW f \in 1..Len(c)
  PROVE  LET b == <<SystemMessage>> \o (IF n > 0 THEN <<SystemMessage>> ELSE << >>)
                    \o SubSeq(c, 1, f) \o <<UserMessage(0)>>
         IN  \E o \in {1, 2} :
               /\ b \in Seq(Messages) /\ Len(b) = o + f + 1 /\ Instructions(b, o)
               /\ \A x \in 1..f : b[o + x] = c[x]
               /\ Question(b, o + f + 1) /\ b[o + f + 1] = UserMessage(0)
<1> DEFINE a == <<SystemMessage>> \o (IF n > 0 THEN <<SystemMessage>> ELSE << >>)
           o == IF n > 0 THEN 2 ELSE 1
           r == SubSeq(c, 1, f)
           m == UserMessage(0)
           e == a \o r
           b == e \o <<m>>
<1>1. SystemMessage \in Messages /\ SystemMessage.role = "system"
      /\ m \in Messages /\ m.role = "user"
  BY MessagesAre
<1>2. a \in Seq(Messages) /\ Len(a) = o /\ \A i \in 1..o : a[i].role = "system"
  BY <1>1
<1>3. o \in {1, 2} /\ Len(c) \in Nat  BY PositionsAre
<1>4. r \in Seq(Messages) /\ Len(r) = f /\ \A x \in 1..f : r[x] = c[x]
  <2>1. 1 \in 1..Len(c) + 1 /\ f \in 0..Len(c) /\ 1 <= f /\ f - 1 + 1 = f  BY <1>3
  <2>2. r \in Seq(Messages) /\ Len(r) = f /\ \A x \in 1..Len(r) : r[x] = c[x + 1 - 1]
    BY <2>1, WindowOf
  <2> HIDE DEF r
  <2>3. ASSUME NEW x \in 1..f PROVE r[x] = c[x]
    <3>1. x + 1 - 1 = x /\ x \in 1..Len(r)  BY <2>2
    <3> QED  BY <3>1, <2>2
  <2> QED  BY <2>2, <2>3
<1>5. <<m>> \in Seq(Messages) /\ Len(<<m>>) = 1 /\ <<m>>[1] = m  BY <1>1, LegalQuestion
<1> DEFINE q == <<m>>
<1> HIDE DEF a, o, r, m, q
<1>6. /\ e \in Seq(Messages) /\ Len(e) = o + f
      /\ \A x \in 1..o + f : e[x] = IF x <= o THEN a[x] ELSE r[x - o]
  BY <1>2, <1>4, Parts
<1> HIDE DEF e
<1>7. /\ b \in Seq(Messages) /\ Len(b) = o + f + 1
      /\ \A x \in 1..o + f + 1 : b[x] = IF x <= o + f THEN e[x] ELSE q[x - (o + f)]
  BY <1>5, <1>6, Parts DEF q
<1> HIDE DEF b
<1>8. ASSUME NEW i \in 1..o PROVE b[i].role = "system"
  <2>1. i \in 1..o + f /\ i <= o /\ i \in 1..o + f + 1 /\ i <= o + f  BY <1>3
  <2> QED  BY <2>1, <1>2, <1>6, <1>7
<1>9. ASSUME NEW x \in 1..f PROVE b[o + x] = c[x]
  <2>1. /\ o + x \in 1..o + f /\ ~(o + x <= o) /\ (o + x) - o = x
        /\ o + x \in 1..o + f + 1 /\ o + x <= o + f
    BY <1>3
  <2>2. b[o + x] = e[o + x] /\ e[o + x] = r[(o + x) - o]  BY <2>1, <1>6, <1>7
  <2> QED  BY <2>1, <2>2, <1>4
<1>10. b[o + f + 1] = m
  <2>1. /\ o + f + 1 \in 1..o + f + 1 /\ ~(o + f + 1 <= o + f)
        /\ (o + f + 1) - (o + f) = 1
    BY <1>3
  <2>2. b[o + f + 1] = q[(o + f + 1) - (o + f)]  BY <2>1, <1>7
  <2>3. q[1] = m  BY <1>5 DEF q
  <2> QED  BY <2>1, <2>2, <2>3
<1>11. Instructions(b, o)
  <2>1. o \in 0..Len(b) /\ 1 \in 1..f  BY <1>3, <1>7
  <2>2. b[o + 1].role # "system"
    <3>1. b[o + 1] = c[1] /\ 1 \in 1..Len(c)  BY <1>3, <1>9, <2>1
    <3> QED  BY <3>1 DEF Placed
  <2> QED  BY <2>1, <2>2, <1>8 DEF Instructions
<1>12. Question(b, o + f + 1)
  <2>1. o + f + 1 \in 1..Len(b) /\ \A i \in (o + f + 1 + 1)..Len(b) : FALSE
    BY <1>3, <1>7
  <2> QED  BY <2>1, <1>1, <1>10 DEF Question
<1>13. \E u \in {1, 2} :
         /\ b \in Seq(Messages) /\ Len(b) = u + f + 1 /\ Instructions(b, u)
         /\ \A x \in 1..f : b[u + x] = c[x]
         /\ Question(b, u + f + 1) /\ b[u + f + 1] = m
  BY <1>3, <1>7, <1>9, <1>10, <1>11, <1>12
<1> QED  BY <1>13 DEF a, e, r, m, q, b

\* e is what c holds up to its message f, and does not begin with a result.
EndsAt(e, c, f) ==
  \E o \in Nat : /\ e \in Seq(Messages) /\ o + Len(e) = f
                 /\ \A x \in 1..Len(e) : e[x] = c[o + x]
                 /\ Len(e) > 0 => c[o + 1].role # "tool"

LEMMA NothingEnds == ASSUME NEW c, NEW f \in Nat PROVE EndsAt(<< >>, c, f)
<1> DEFINE e == << >>
<1>1. e \in Seq(Messages) /\ Len(e) = 0  BY CostOfNothing
<1> HIDE DEF e
<1>2. f + Len(e) = f /\ ~(Len(e) > 0) /\ \A x \in 1..Len(e) : FALSE  BY <1>1
<1>3. EndsAt(e, c, f)  BY <1>1, <1>2 DEF EndsAt
<1> QED  BY <1>3 DEF e

\* What is left of the transcript is an end of what is folded.
LEMMA TranscriptEnd ==
  ASSUME NEW b \in Seq(Messages), NEW c \in Seq(Messages), NEW f \in 1..Len(c),
         NEW p \in Nat, Len(b) = p + f + 1, \A x \in 1..f : b[p + x] = c[x],
         NEW i \in (p + 1)..(p + f + 1), NEW e,
         e = DropLeadingOrphan(SubSeq(b, i, p + f))
  PROVE  EndsAt(e, c, f)
<1> DEFINE w == SubSeq(b, i, p + f)
<1>1. /\ Len(b) \in Nat /\ Len(c) \in Nat /\ f \in Nat /\ i \in 1..Len(b) + 1
      /\ p + f \in 0..Len(b)
  BY PositionsAre
<1>2. /\ w \in Seq(Messages) /\ Len(w) = IF i <= p + f THEN p + f - i + 1 ELSE 0
      /\ \A n \in 1..Len(w) : w[n] = b[n + i - 1]
  BY <1>1, WindowOf
<1> HIDE DEF w
<1>3. \/ e = << >>
      \/ \E g \in 1..Len(w) : e = SubSeq(w, g, Len(w)) /\ w[g].role # "tool"
  <2>1. e = DropLeadingOrphan(w)  BY DEF w
  <2> QED  BY <1>2, <2>1, OrphansDropped
<1>4. CASE e = << >>
  <2>1. EndsAt(<< >>, c, f)  BY <1>1, NothingEnds
  <2> QED  BY <2>1, <1>4
<1>5. ASSUME NEW g \in 1..Len(w), e = SubSeq(w, g, Len(w)), w[g].role # "tool"
      PROVE  EndsAt(e, c, f)
  <2>1. /\ Len(w) \in Nat /\ i <= p + f /\ Len(w) = p + f - i + 1
        /\ g \in 1..Len(w) + 1 /\ Len(w) \in 0..Len(w) /\ g <= Len(w)
    BY <1>1, <1>2, <1>5
  <2>2. /\ e \in Seq(Messages) /\ Len(e) = Len(w) - g + 1
        /\ \A n \in 1..Len(e) : e[n] = w[n + g - 1]
    <3> DEFINE v == SubSeq(w, g, Len(w))
    <3>1. /\ v \in Seq(Messages) /\ Len(v) = Len(w) - g + 1
          /\ \A n \in 1..Len(v) : v[n] = w[n + g - 1]
      BY <1>2, <2>1, WindowOf
    <3>2. e = v  BY <1>5
    <3> HIDE DEF v
    <3> QED  BY <3>1, <3>2
  <2> DEFINE o == g + i - 2 - p
  <2>3. o \in Nat /\ o + Len(e) = f /\ Len(e) \in Nat /\ Len(e) > 0  BY <1>1, <2>1, <2>2
  <2>4. ASSUME NEW x \in 1..Len(e) PROVE e[x] = c[o + x]
    <3>1. /\ x + g - 1 \in 1..Len(w) /\ (x + g - 1) + i - 1 = p + (o + x)
          /\ o + x \in 1..f
      BY <1>1, <2>1, <2>2
    <3>2. e[x] = w[x + g - 1] /\ w[x + g - 1] = b[(x + g - 1) + i - 1]
      BY <2>2, <3>1, <1>2
    <3> HIDE DEF o
    <3> QED  BY <3>1, <3>2
  <2>5. c[o + 1].role # "tool"
    <3>1. 1 \in 1..Len(e) /\ 1 + g - 1 = g  BY <2>1, <2>3
    <3>2. e[1] = w[g]  BY <3>1, <2>2
    <3> HIDE DEF o
    <3> QED  BY <3>1, <3>2, <2>4, <1>5
  <2> HIDE DEF o
  <2> QED  BY <2>2, <2>3, <2>4, <2>5 DEF EndsAt
<1> QED  BY <1>3, <1>4, <1>5

LEMMA SummaryRequestIs ==
  ASSUME NEW c \in Seq(Messages), Placed(c), NEW n \in Nat, NEW f \in 1..Len(c)
  PROVE  LET h == SummaryRequest(c, n, f)
         IN  /\ h \in Seq(Messages) /\ Excerpted(h, c, f)
             /\ Cost(h) <= Budget \/ Len(h) = Pinned(h) + 1
<1> DEFINE b == <<SystemMessage>> \o (IF n > 0 THEN <<SystemMessage>> ELSE << >>)
                  \o SubSeq(c, 1, f) \o <<UserMessage(0)>>
           h == Trim(b)
<1>1. PICK p \in {1, 2} :
        /\ b \in Seq(Messages) /\ Len(b) = p + f + 1 /\ Instructions(b, p)
        /\ \A x \in 1..f : b[p + x] = c[x]
        /\ Question(b, p + f + 1)
  BY TranscriptIs
<1>2. h = SummaryRequest(c, n, f)  BY DEF SummaryRequest
<1> HIDE DEF b
<1> DEFINE q == p + f + 1
<1>3. Cost(h) <= Budget \/ Len(h) = Pinned(h) + 1  BY <1>1, TrimFits
<1>4. PICK u, e, w : Sent(b, q, u, e, w)  BY <1>1, TrimIs
<1>5. u = p  BY <1>1, <1>4, PinnedIsUnique DEF Sent
<1>6. /\ Len(c) \in Nat /\ f \in Nat /\ p \in Nat /\ q \in Nat /\ Len(b) = q /\ q - 1 = p + f
  BY <1>1, PositionsAre
<1>7. w = << >> /\ Len(w) = 0
  <2>1. PICK k \in (q + 1)..(Len(b) + 1) : w = DropLeadingOrphan(SubSeq(b, k, Len(b)))
    BY <1>4 DEF Sent
  <2>2. k = Len(b) + 1 /\ k \in 1..Len(b) + 1 /\ Len(b) \in 0..Len(b) /\ ~(k <= Len(b))
    BY <1>6
  <2> DEFINE r == SubSeq(b, k, Len(b))
  <2>3. r \in Seq(Messages) /\ Len(r) = 0  BY <1>1, <2>2, WindowOf
  <2>4. w = DropLeadingOrphan(r)  BY <2>1
  <2> HIDE DEF r
  <2>5. ~ \E y \in 1..Len(r) : TRUE  BY <2>3
  <2>6. w = << >>  BY <2>3, <2>4, <2>5, OrphansDropped
  <2> QED  BY <2>6, CostOfNothing
<1>8. EndsAt(e, c, f)
  <2>1. CASE e = << >>
    <3>1. EndsAt(<< >>, c, f)  BY <1>6, NothingEnds
    <3> QED  BY <3>1, <2>1
  <2>2. ASSUME NEW i \in (p + 1)..q, e = DropLeadingOrphan(SubSeq(b, i, q - 1))
        PROVE  EndsAt(e, c, f)
    <3>1. e = DropLeadingOrphan(SubSeq(b, i, p + f)) /\ i \in (p + 1)..(p + f + 1)
      BY <2>2, <1>6
    <3> QED  BY <3>1, <1>1, <1>6, TranscriptEnd
  <2>3. e = << >> \/ \E i \in (p + 1)..q : e = DropLeadingOrphan(SubSeq(b, i, q - 1))
    BY <1>4, <1>5 DEF Sent
  <2> HIDE DEF q
  <2> QED  BY <2>1, <2>2, <2>3
<1>18. PICK o \in Nat : /\ e \in Seq(Messages) /\ o + Len(e) = f
                        /\ \A x \in 1..Len(e) : e[x] = c[o + x]
                        /\ Len(e) > 0 => c[o + 1].role # "tool"
  BY <1>8 DEF EndsAt
<1> DEFINE a == SubSeq(b, 1, p)
           g == Before(b, p, e)
           l == UpTo(b, q, p, e)
<1>9. /\ a \in Seq(Messages) /\ Len(a) = p /\ \A i \in 1..p : a[i].role = "system"
      /\ b[q].role = "user"
      /\ g \in Seq(Messages) /\ Len(g) = p + Len(e) /\ g = a \o e
      /\ l \in Seq(Messages) /\ Len(l) = p + Len(e) + 1 /\ l[p + Len(e) + 1] = b[q]
      /\ l = g \o <<b[q]>>
      /\ h = l \o w /\ h \in Seq(Messages)
  <2>1. Parted(b, q, p, e, w)  BY <1>1, <1>4, <1>5, SentIsParted
  <2> QED  BY <2>1 DEF Parted
<1> HIDE DEF a, g, l, h, q
<1>10. h = l  BY <1>7, <1>9
<1>11. b[q] \in Messages  BY <1>1, <1>6, PositionsAre
<1>12. Len(e) \in Nat /\ <<b[q]>> \in Seq(Messages) /\ Len(<<b[q]>>) = 1
  BY <1>18, <1>9, <1>11, PositionsAre, LegalQuestion
<1>13. \A x \in 1..p + Len(e) : h[x] = IF x <= p THEN a[x] ELSE e[x - p]
  <2> SUFFICES ASSUME NEW x \in 1..p + Len(e) PROVE h[x] = IF x <= p THEN a[x] ELSE e[x - p]
    OBVIOUS
  <2>1. x \in 1..Len(g) + Len(<<b[q]>>) /\ x <= Len(g) /\ x \in 1..Len(a) + Len(e)
    BY <1>6, <1>9, <1>12
  <2>2. l[x] = g[x]  BY <2>1, <1>9, <1>12, Parts
  <2>3. g[x] = IF x <= Len(a) THEN a[x] ELSE e[x - Len(a)]  BY <2>1, <1>18, <1>9, Parts
  <2> QED  BY <2>2, <2>3, <1>9, <1>10
<1>14. ASSUME NEW i \in 1..p PROVE h[i].role = "system"
  <2>1. i \in 1..p + Len(e) /\ i <= p  BY <1>6, <1>12
  <2> QED  BY <2>1, <1>9, <1>13
<1>15. ASSUME NEW x \in 1..Len(e) PROVE h[p + x] = c[o + x]
  <2>1. p + x \in 1..p + Len(e) /\ ~(p + x <= p) /\ (p + x) - p = x  BY <1>6, <1>12
  <2>2. h[p + x] = e[(p + x) - p]  BY <2>1, <1>13
  <2> QED  BY <2>1, <2>2, <1>18
<1>16. Excerpt(h, c, f, p, o, Len(e))
  <2>1. /\ h \in Seq(Messages) /\ Len(h) = p + Len(e) + 1
        /\ h[p + Len(e) + 1].role = "user"
    BY <1>9, <1>10
  <2> QED  BY <2>1, <1>6, <1>12, <1>14, <1>15, <1>18 DEF Excerpt
<1>17. Excerpted(h, c, f)  BY <1>16 DEF Excerpted
<1> QED  BY <1>2, <1>3, <1>9, <1>17

\* Calls of h are announced there by the f-th message and answered after it.
Cut(h, f) == \E i \in DOMAIN h : h[i].role = "assistant" /\ h[i].at + h[i].calls > f

\* The messages of an excerpt.
LEMMA ExcerptIs ==
  ASSUME NEW c \in Seq(Messages), Placed(c), NEW f \in Nat, f <= Len(c),
         NEW h, NEW p, NEW o, NEW d, Excerpt(h, c, f, p, o, d)
  PROVE  /\ p \in Nat /\ o \in Nat /\ d \in Nat /\ o + d = f /\ Len(h) = p + d + 1
         /\ h \in Seq(Messages) /\ DOMAIN h = 1..Len(h) /\ Len(c) \in Nat
         /\ \A i \in 1..Len(h) : h[i].role \notin {"system", "user"} => i - p \in 1..d
         /\ \A x \in 1..d : /\ p + x \in 1..Len(h) /\ o + x \in 1..f /\ o + x \in 1..Len(c)
                            /\ h[p + x] = c[o + x] /\ h[p + x].at = o + x
                            /\ h[p + x].calls \in Nat /\ h[p + x].role # "system"
         /\ h[p + d + 1].role = "user"
<1>1. /\ p \in Nat /\ o \in Nat /\ d \in Nat /\ o + d = f /\ Len(h) = p + d + 1
      /\ h \in Seq(Messages) /\ h[p + d + 1].role = "user"
      /\ \A i \in 1..p : h[i].role = "system"
      /\ \A x \in 1..d : h[p + x] = c[o + x]
  BY DEF Excerpt
<1>2. Len(c) \in Nat /\ DOMAIN h = 1..Len(h)  BY <1>1, PositionsAre
<1>3. ASSUME NEW i \in 1..Len(h), h[i].role \notin {"system", "user"} PROVE i - p \in 1..d
  <2>1. i \notin 1..p /\ i # p + d + 1  BY <1>1, <1>3
  <2> QED  BY <2>1, <1>1
<1>4. ASSUME NEW x \in 1..d
      PROVE  /\ p + x \in 1..Len(h) /\ o + x \in 1..f /\ o + x \in 1..Len(c)
             /\ h[p + x] = c[o + x] /\ h[p + x].at = o + x
             /\ h[p + x].calls \in Nat /\ h[p + x].role # "system"
  <2>1. p + x \in 1..Len(h) /\ o + x \in 1..f /\ o + x \in 1..Len(c)  BY <1>1, <1>2
  <2>2. h[p + x] = c[o + x]  BY <1>1
  <2>3. h[p + x].calls \in Nat  BY <2>1, <1>1, PositionsAre
  <2>4. c[o + x].at = o + x /\ c[o + x].role # "system"  BY <2>1 DEF Placed
  <2> QED  BY <2>1, <2>2, <2>3, <2>4
<1> QED  BY <1>1, <1>2, <1>3, <1>4

\* It is legal unless it is cut between an announcement and its results.
LEMMA ExcerptIsLegal ==
  ASSUME NEW c \in Seq(Messages), Placed(c), NEW f \in Nat, f <= Len(c), Kept(c, f),
         NEW h, NEW p, NEW o, NEW d, Excerpt(h, c, f, p, o, d)
  PROVE  Legal(h) <=> ~Cut(h, f)
<1>1. /\ p \in Nat /\ o \in Nat /\ d \in Nat /\ o + d = f /\ Len(h) = p + d + 1
      /\ h \in Seq(Messages) /\ DOMAIN h = 1..Len(h)
      /\ \A i \in 1..Len(h) : h[i].role \notin {"system", "user"} => i - p \in 1..d
      /\ \A x \in 1..d : /\ p + x \in 1..Len(h) /\ o + x \in 1..f
                         /\ h[p + x] = c[o + x] /\ h[p + x].at = o + x
                         /\ h[p + x].calls \in Nat
      /\ h[p + d + 1].role = "user"
  BY ExcerptIs
<1>2. d > 0 => c[o + 1].role # "tool"  BY DEF Excerpt
<1>3. ASSUME NEW x \in 1..d, h[p + x].role = "assistant"
      PROVE  Answered(h, p + x) <=> ~(h[p + x].at + h[p + x].calls > f)
  <2> DEFINE n == h[p + x].calls
  <2>1. n \in Nat /\ h[p + x].at = o + x /\ c[o + x].calls = n /\ c[o + x].at = o + x
    BY <1>1
  <2>2. \A k \in 1..n : c[o + x + k].role = "tool" /\ c[o + x + k].of = o + x
                        /\ c[o + x + k].call = k
    <3>1. o + x \in 1..f /\ c[o + x].role = "assistant"  BY <1>1, <1>3
    <3>2. Answered(c, o + x)  BY <3>1 DEF Kept
    <3> QED  BY <3>2, <2>1 DEF Answered
  <2> HIDE DEF n
  <2>3. ASSUME ~(o + x + n > f) PROVE Answered(h, p + x)
    <3>1. x + n <= d /\ p + x + n <= Len(h)  BY <2>1, <2>3, <1>1
    <3>2. ASSUME NEW k \in 1..n
          PROVE  /\ h[p + x + k].role = "tool" /\ h[p + x + k].of = o + x
                 /\ h[p + x + k].call = k
      <4>1. x + k \in 1..d /\ p + (x + k) = p + x + k /\ o + (x + k) = o + x + k
        BY <3>1, <2>1, <1>1
      <4>2. h[p + (x + k)] = c[o + (x + k)]  BY <4>1, <1>1
      <4> QED  BY <4>1, <4>2, <2>2
    <3> QED  BY <3>1, <3>2, <2>1 DEF Answered, n
  <2>4. ASSUME o + x + n > f PROVE ~Answered(h, p + x)
    <3> DEFINE k == d + 1 - x
    <3>1. k \in 1..n /\ p + x + k = p + d + 1  BY <2>1, <2>4, <1>1
    <3> HIDE DEF k
    <3>2. h[p + x + k].role # "tool"  BY <3>1, <1>1
    <3> QED  BY <3>1, <3>2 DEF Answered, n
  <2> QED  BY <2>1, <2>3, <2>4 DEF n
<1>4. ASSUME NEW x \in 1..d, h[p + x].role = "tool" PROVE Announced(h, p + x)
  <2> DEFINE e == o + x
             g == p + x
  <2>1. /\ e \in 1..f /\ c[e].role = "tool" /\ h[g] = c[e] /\ o + 1 <= e /\ e - o = x
        /\ g \in Nat /\ g - p = x
    BY <1>1, <1>4
  <2>2. Announced(c, e)  BY <2>1 DEF Kept
  <2> HIDE DEF e, g
  <2>3. PICK j \in 1..(e - 1) : /\ c[j].role = "assistant" /\ c[j].at = c[e].of
                               /\ \A m \in (j + 1)..e : c[m].role = "tool"
    BY <2>2, AnnouncedIs
  <2>4. j >= o + 1
    <3> SUFFICES ASSUME ~(j >= o + 1) PROVE FALSE  OBVIOUS
    <3>1. o + 1 \in (j + 1)..e /\ d > 0  BY <1>1, <2>1
    <3> QED  BY <3>1, <2>3, <1>2
  <2> DEFINE y == j - o
             l == p + y
  <2>5. y \in 1..d /\ o + y = j /\ l \in 1..(g - 1)  BY <1>1, <2>1, <2>3, <2>4
  <2>6. h[l] = c[j]
    <3> HIDE DEF y
    <3> QED  BY <1>1, <2>5
  <2>7. ASSUME NEW m \in (l + 1)..g PROVE h[m].role = "tool"
    <3> DEFINE z == m - p
    <3>1. z \in 1..d /\ p + z = m /\ o + z \in (j + 1)..e  BY <1>1, <2>1, <2>5
    <3> HIDE DEF z
    <3>2. h[p + z] = c[o + z]  BY <3>1, <1>1
    <3> QED  BY <3>1, <3>2, <2>3
  <2> HIDE DEF l
  <2>8. Announced(h, g)  BY <2>1, <2>3, <2>5, <2>6, <2>7 DEF Announced
  <2> QED  BY <2>8 DEF g
<1>5. ASSUME NEW i \in 1..Len(h), h[i].role \notin {"system", "user"}
      PROVE  \E x \in 1..d : p + x = i
  <2>1. i - p \in 1..d /\ p + (i - p) = i  BY <1>1, <1>5
  <2> QED  BY <2>1
<1>6. ASSUME ~Cut(h, f) PROVE Legal(h)
  <2> SUFFICES ASSUME NEW i \in 1..Len(h)
               PROVE  /\ h[i].role = "assistant" => Answered(h, i)
                      /\ h[i].role = "tool" => Announced(h, i)
    BY <1>1, LegalIs
  <2>1. ~(h[i].role = "assistant" /\ h[i].at + h[i].calls > f)  BY <1>1, <1>6 DEF Cut
  <2>2. CASE h[i].role \in {"assistant", "tool"}
    <3>1. PICK x \in 1..d : p + x = i  BY <2>2, <1>5
    <3> QED  BY <3>1, <2>1, <1>3, <1>4
  <2> QED  BY <2>2
<1>7. ASSUME Cut(h, f) PROVE ~Legal(h)
  <2>1. PICK i \in 1..Len(h) : h[i].role = "assistant" /\ h[i].at + h[i].calls > f
    BY <1>1, <1>7 DEF Cut
  <2>2. PICK x \in 1..d : p + x = i  BY <2>1, <1>5
  <2>3. ~Answered(h, i)  BY <2>1, <2>2, <1>3
  <2> QED  BY <2>1, <2>3, <1>1, LegalIs
<1> QED  BY <1>6, <1>7

-----------------------------------------------------------------------------
(* What a step leaves to the other turns.                                  *)

PCs == {"closed", "idle", "compacting", "folding", "asking", "calling"}

LEMMA TurnsAre ==
  ASSUME NEW t \in Turns
  PROVE  /\ t.history \in Seq(Messages) /\ t.sound \in BOOLEAN
         /\ t.request \in Nat /\ t.known \in Nat /\ t.fold \in Nat /\ t.round \in Nat
         /\ t.made \in Nat /\ t.announced \in Nat /\ t.calls \in Nat /\ t.next \in Nat
BY DEF Turns

LEMMA IdleIs == Idle \in Turns
<1>1. << >> \in Seq(Messages)  BY CostOfNothing
<1> QED  BY <1>1 DEF Idle, Turns

LEMMA BoundsAre ==
  /\ Budget \in Nat /\ Keep \in Nat \ {0} /\ MaxRounds \in Nat /\ MaxCalls \in Nat
  /\ CallsPerReply \in Nat /\ MaxStored \in Nat
BY ChatAssumption

\* A summary is asked for.
LEMMA SummariseIs ==
  ASSUME NEW s \in Sockets, NEW to \in Folding, NEW c \in Seq(Messages), Placed(c), NEW q \in Nat,
         pc \in [Sockets -> PCs], turn \in [Sockets -> Turns],
         summarised \in Nat, Len(c) - Keep > summarised, Summarise(s, to, c, q)
  PROVE  /\ pc' \in [Sockets -> PCs] /\ turn' \in [Sockets -> Turns] /\ pc'[s] = to
         /\ \A t \in Sockets \ {s} : pc'[t] = pc[t] /\ turn'[t] = turn[t]
         /\ AsksSummary(turn'[s], c)
         /\ turn'[s].request = q /\ turn'[s].known = summarised /\ turn'[s].fold < Len(c)
<1> DEFINE f == Len(c) - Keep
           h == SummaryRequest(c, summarised, f)
           legal == Legal(c)
           w == [Idle EXCEPT !.history = h, !.sound = legal, !.request = q,
                             !.known = summarised, !.fold = f]
<1>1. pc' = [pc EXCEPT ![s] = to] /\ turn' = [turn EXCEPT ![s] = w]
  BY DEF Summarise
<1>2. f \in 1..Len(c) /\ f \in Nat /\ f < Len(c) /\ Len(c) \in Nat
  <2>1. Len(c) \in Nat  BY PositionsAre
  <2> QED  BY <2>1, BoundsAre
<1> HIDE DEF f
<1>3. /\ h \in Seq(Messages) /\ Excerpted(h, c, f)
      /\ Cost(h) <= Budget \/ Len(h) = Pinned(h) + 1
  BY <1>2, SummaryRequestIs
<1> HIDE DEF h
<1>4. legal => Kept(c, f)
  <2> SUFFICES ASSUME legal, NEW i \in 1..f
               PROVE  /\ c[i].role = "assistant" => Answered(c, i)
                      /\ c[i].role = "tool" => Announced(c, i)
    BY DEF Kept
  <2>1. i \in 1..Len(c)  BY <1>2
  <2> QED  BY <2>1, LegalIs
<1>5. legal \in BOOLEAN  BY DEF Legal
<1> HIDE DEF legal
<1>6. /\ w \in Turns /\ w.history = h /\ w.sound = legal /\ w.request = q
      /\ w.known = summarised /\ w.fold = f
  BY <1>2, <1>3, <1>5, IdleIs DEF Turns, Idle
<1> HIDE DEF w
<1>7. to \in PCs  BY DEF Folding, PCs
<1>8. /\ pc'[s] = to /\ turn'[s] = w
      /\ pc' \in [Sockets -> PCs] /\ turn' \in [Sockets -> Turns]
      /\ \A t \in Sockets \ {s} : pc'[t] = pc[t] /\ turn'[t] = turn[t]
  BY <1>1, <1>6, <1>7
<1>9. AsksSummary(w, c)  BY <1>2, <1>3, <1>4, <1>6 DEF AsksSummary
<1> QED  BY <1>2, <1>6, <1>8, <1>9

\* It is asked with as much, whatever is stored meanwhile.
LEMMA SummaryGoesOn ==
  ASSUME NEW t \in Turns, NEW c \in Seq(Messages), AsksSummary(t, c), NEW m \in Messages
  PROVE  AsksSummary(t, Append(c, m))
<1> DEFINE e == Append(c, m)
           f == t.fold
           h == t.history
<1>1. /\ f \in 1..Len(c) /\ Excerpted(h, c, f) /\ (t.sound => Kept(c, f))
      /\ Cost(h) <= Budget \/ Len(h) = Pinned(h) + 1
  BY DEF AsksSummary
<1>2. /\ Len(c) \in Nat /\ Len(e) = Len(c) + 1
      /\ \A i \in 1..Len(c) : /\ e[i] = c[i]
                              /\ Answered(c, i) => Answered(e, i)
                              /\ Announced(c, i) => Announced(e, i)
  BY Appended, AppendKeeps, PositionsAre
<1> HIDE DEF e, f, h
<1>3. f \in 1..Len(e) /\ \A i \in 1..f : i \in 1..Len(c)  BY <1>1, <1>2
<1>4. Kept(c, f) => Kept(e, f)  BY <1>2, <1>3 DEF Kept
<1>5. Excerpted(h, e, f)
  <2>1. PICK p, o, d : Excerpt(h, c, f, p, o, d)  BY <1>1 DEF Excerpted
  <2>2. /\ h \in Seq(Messages) /\ Len(h) = p + d + 1
        /\ p \in Nat /\ o \in Nat /\ d \in Nat /\ o + d = f
        /\ \A i \in 1..p : h[i].role = "system"
        /\ \A x \in 1..d : h[p + x] = c[o + x]
        /\ h[p + d + 1].role = "user"
        /\ d > 0 => c[o + 1].role # "tool"
    BY <2>1 DEF Excerpt
  <2>3. \A x \in 1..d : o + x \in 1..f  BY <2>2
  <2>4. \A x \in 1..d : e[o + x] = c[o + x]  BY <2>3, <1>2, <1>3
  <2>5. d > 0 => e[o + 1] = c[o + 1]
    <3>1. d > 0 => 1 \in 1..d  BY <2>2
    <3> QED  BY <3>1, <2>4
  <2>6. Excerpt(h, e, f, p, o, d)  BY <2>2, <2>4, <2>5 DEF Excerpt
  <2> QED  BY <2>6 DEF Excerpted
<1>6. AsksSummary(t, e)  BY <1>1, <1>3, <1>4, <1>5 DEF AsksSummary, f, h
<1> QED  BY <1>6 DEF e

\* A step of another socket that stores a message, if it does, when no turn
\* that is not disturbed by it runs.
LEMMA OthersGoOn ==
  ASSUME ChatInv, NEW t \in Sockets, TurnInv(t),
         pc'[t] = pc[t], turn'[t] = turn[t], torn => torn',
         \/ stored' = stored
         \/ /\ \E m \in Messages : stored' = Append(stored, m)
            /\ ~torn' => pc[t] \notin InTurn
  PROVE  TurnInv(t)'
<1>1. stored \in Seq(Messages) /\ turn[t] \in Turns /\ Len(stored) \in Nat
  BY PositionsAre DEF ChatInv, ChatTypeOK
<1>2. turn[t].request \in Nat /\ turn[t].fold \in Nat  BY <1>1, TurnsAre
<1>3. /\ Len(stored) <= Len(stored') /\ Len(stored') \in Nat
      /\ \A x \in 1..Len(stored) : stored'[x] = stored[x]
  <2>1. CASE stored' = stored  BY <2>1, <1>1
  <2>2. CASE \E m \in Messages : stored' = Append(stored, m)
    <3>1. PICK m \in Messages : stored' = Append(stored, m)  BY <2>2
    <3>2. Len(Append(stored, m)) = Len(stored) + 1
          /\ \A x \in 1..Len(stored) : Append(stored, m)[x] = stored[x]
      BY <1>1, Appended
    <3> QED  BY <1>1, <3>1, <3>2
  <2> QED  BY <2>1, <2>2
<1>4. Folds(t)'
  <2>1. Folds(t)  BY DEF TurnInv
  <2>2. turn[t].request \in 1..Len(stored) => turn[t].request \in 1..Len(stored')
    BY <1>1, <1>2, <1>3
  <2>3. AsksSummary(turn[t], stored) => AsksSummary(turn[t], stored')
    BY <1>1, SummaryGoesOn
  <2> QED  BY <2>1, <2>2, <2>3, <1>3 DEF Folds
<1>5. Asks(t)'
  <2>1. Asks(t)  BY DEF TurnInv
  <2> QED  BY <2>1 DEF Asks
<1>6. Sends(t)'
  <2>1. Sends(t)  BY DEF TurnInv
  <2> QED  BY <2>1 DEF Sends
<1>7. Stores(t)'
  <2>1. Stores(t)  BY DEF TurnInv
  <2>2. CASE stored' = stored  BY <2>1, <2>2 DEF Stores
  <2>3. CASE ~torn' => pc[t] \notin InTurn
    <3>1. pc[t] = "calling" => pc[t] \in InTurn  BY DEF InTurn
    <3> QED  BY <2>3, <3>1 DEF Stores
  <2> QED  BY <2>2, <2>3
<1> QED  BY <1>4, <1>5, <1>6, <1>7 DEF TurnInv

\* A turn that ends, or is not begun.
LEMMA NoTurn ==
  ASSUME NEW s \in Sockets, pc'[s] \in {"idle", "closed"}
  PROVE  TurnInv(s)'
BY DEF TurnInv, Folds, Folding, Asks, Sends, Stores, InTurn

\* A step after which fewer turns run, and none that was calling.
LEMMA FewerTurns ==
  ASSUME ChatInv, torn => torn', stored' = stored,
         NEW s \in Sockets, pc'[s] \notin InTurn, pc[s] = "calling" => torn',
         \A t \in Sockets \ {s} : pc'[t] = pc[t]
  PROVE  OneTurn' /\ Settled' /\ Placed(stored)'
<1>1. OneTurn /\ Settled /\ Placed(stored)  BY DEF ChatInv
<1>2. OneTurn'  BY <1>1 DEF OneTurn
<1>3. Settled'
  <2>1. CASE torn'  BY <2>1 DEF Settled
  <2>2. CASE ~torn' /\ \E t \in Sockets : pc'[t] = "calling"  BY <2>2 DEF Settled
  <2>3. CASE ~torn' /\ \A t \in Sockets : pc'[t] # "calling"
    <3>1. ~torn /\ \A t \in Sockets : pc[t] # "calling"  BY <2>3
    <3> QED  BY <3>1, <1>1 DEF Settled
  <2> QED  BY <2>1, <2>2, <2>3
<1>4. Placed(stored)'  BY <1>1
<1> QED  BY <1>2, <1>3, <1>4

-----------------------------------------------------------------------------
(* Steps that store nothing and send nothing.                              *)

LEMMA OpenKeeps ==
  ASSUME ChatInv, NEW s \in Sockets, Open(s)
  PROVE  ChatInv'
<1>1. /\ pc' = [pc EXCEPT ![s] = "idle"] /\ pc[s] = "closed"
      /\ UNCHANGED <<stored, summarised, turn, torn>>
      /\ pc \in [Sockets -> PCs]
  BY DEF Open, ChatInv, ChatTypeOK, PCs
<1>2. pc'[s] = "idle" /\ \A t \in Sockets \ {s} : pc'[t] = pc[t]  BY <1>1
<1>3. ChatTypeOK'
  <2>1. pc' \in [Sockets -> PCs]  BY <1>1 DEF PCs
  <2>2. ChatTypeOK  BY DEF ChatInv
  <2> QED  BY <1>1, <2>1, <2>2 DEF ChatTypeOK, PCs
<1>4. OneTurn' /\ Settled' /\ Placed(stored)'
  <2>1. pc'[s] \notin InTurn  BY <1>2 DEF InTurn
  <2> QED  BY <2>1, <1>1, <1>2, FewerTurns
<1>5. ASSUME NEW t \in Sockets PROVE TurnInv(t)'
  <2>1. CASE t = s  BY <2>1, <1>2, NoTurn
  <2>2. CASE t # s
    <3>1. TurnInv(t)  BY DEF ChatInv
    <3> QED  BY <2>2, <3>1, <1>1, <1>2, OthersGoOn
  <2> QED  BY <2>1, <2>2
<1> QED  BY <1>3, <1>4, <1>5 DEF ChatInv

\* A turn that is left where it may be left.
LEMMA LeaveKeeps ==
  ASSUME ChatInv, NEW s \in Sockets, NEW to \in {"idle", "closed"}, Leave(s, to),
         UNCHANGED <<stored, summarised>>
  PROVE  ChatInv'
<1>1. /\ pc' = [pc EXCEPT ![s] = to] /\ turn' = [turn EXCEPT ![s] = Idle]
      /\ torn' = (torn \/ pc[s] = "calling")
      /\ pc \in [Sockets -> PCs] /\ turn \in [Sockets -> Turns] /\ torn \in BOOLEAN
      /\ stored' = stored /\ summarised' = summarised
  BY DEF Leave, ChatInv, ChatTypeOK, PCs
<1>2. /\ pc'[s] = to
      /\ \A t \in Sockets \ {s} : pc'[t] = pc[t] /\ turn'[t] = turn[t]
  BY <1>1
<1>3. ChatTypeOK'
  <2>1. pc' \in [Sockets -> PCs] /\ turn' \in [Sockets -> Turns]
    BY <1>1, IdleIs DEF PCs
  <2>2. torn' \in BOOLEAN  BY <1>1
  <2>3. ChatTypeOK  BY DEF ChatInv
  <2> QED  BY <1>1, <2>1, <2>2, <2>3 DEF ChatTypeOK, PCs
<1>4. (torn => torn') /\ (pc[s] = "calling" => torn')  BY <1>1
<1>5. OneTurn' /\ Settled' /\ Placed(stored)'
  <2>1. pc'[s] \notin InTurn  BY <1>2 DEF InTurn
  <2> QED  BY <2>1, <1>1, <1>2, <1>4, FewerTurns
<1>6. ASSUME NEW t \in Sockets PROVE TurnInv(t)'
  <2>1. CASE t = s  BY <2>1, <1>2, NoTurn
  <2>2. CASE t # s
    <3>1. TurnInv(t)  BY DEF ChatInv
    <3> QED  BY <2>2, <3>1, <1>1, <1>2, <1>4, OthersGoOn
  <2> QED  BY <2>1, <2>2
<1> QED  BY <1>3, <1>5, <1>6 DEF ChatInv

LEMMA CutOffKeeps ==
  ASSUME ChatInv, NEW s \in Sockets, CutOff(s)
  PROVE  ChatInv'
BY LeaveKeeps DEF CutOff

LEMMA CompactRequestedKeeps ==
  ASSUME ChatInv, NEW s \in Sockets, CompactRequested(s)
  PROVE  ChatInv'
<1>1. /\ pc[s] = "idle" /\ Len(stored) - Keep > summarised
      /\ Summarise(s, "folding", stored, 0)
      /\ UNCHANGED <<stored, summarised, torn>>
      /\ pc \in [Sockets -> PCs] /\ turn \in [Sockets -> Turns]
      /\ stored \in Seq(Messages) /\ Placed(stored) /\ summarised \in 0..Len(stored)
  BY DEF CompactRequested, ChatInv, ChatTypeOK, PCs
<1>2. summarised \in Nat /\ "folding" \in Folding /\ 0 \in Nat
  BY <1>1, PositionsAre DEF Folding
<1>3. /\ pc'[s] = "folding" /\ AsksSummary(turn'[s], stored)
      /\ pc' \in [Sockets -> PCs] /\ turn' \in [Sockets -> Turns]
      /\ \A t \in Sockets \ {s} : pc'[t] = pc[t] /\ turn'[t] = turn[t]
  BY <1>1, <1>2, SummariseIs
<1>4. ChatTypeOK'
  <2>1. ChatTypeOK  BY DEF ChatInv
  <2> QED  BY <1>1, <1>3, <2>1 DEF ChatTypeOK, PCs
<1>5. OneTurn' /\ Settled' /\ Placed(stored)'
  <2>1. pc'[s] \notin InTurn /\ pc[s] # "calling"  BY <1>1, <1>3 DEF InTurn
  <2> QED  BY <2>1, <1>1, <1>3, FewerTurns
<1>6. ASSUME NEW t \in Sockets PROVE TurnInv(t)'
  <2>1. CASE t = s
    <3>1. Folds(s)'  BY <1>1, <1>3 DEF Folds
    <3>2. Asks(s)' /\ Sends(s)' /\ Stores(s)'  BY <1>3 DEF Asks, Sends, Stores, InTurn
    <3> QED  BY <2>1, <3>1, <3>2 DEF TurnInv
  <2>2. CASE t # s
    <3>1. TurnInv(t)  BY DEF ChatInv
    <3> QED  BY <2>2, <3>1, <1>1, <1>3, OthersGoOn
  <2> QED  BY <2>1, <2>2
<1> QED  BY <1>4, <1>5, <1>6 DEF ChatInv

-----------------------------------------------------------------------------
(* A turn begins.                                                          *)

\* Its first request, made of what is stored now.
LEMMA BeginSends ==
  ASSUME NEW s \in Sockets, NEW n \in Nat, NEW q \in Nat,
         pc \in [Sockets -> PCs], turn \in [Sockets -> Turns],
         stored' \in Seq(Messages), Placed(stored'),
         q \in 1..Len(stored'), n < q, stored'[q].role = "user",
         ~torn' => Question(stored', q),
         Begin(s, stored', n, q)
  PROVE  /\ pc' \in [Sockets -> PCs] /\ turn' \in [Sockets -> Turns]
         /\ pc'[s] = "asking" /\ TurnInv(s)'
         /\ \A t \in Sockets \ {s} : pc'[t] = pc[t] /\ turn'[t] = turn[t]
<1> DEFINE c == stored'
           h == Trim(Build(c, n))
           legal == Legal(DropLeadingOrphan(SubSeq(c, n + 1, Len(c))))
           b == [Idle EXCEPT !.history = h, !.request = q, !.sound = legal]
<1>1. pc' = [pc EXCEPT ![s] = "asking"] /\ turn' = [turn EXCEPT ![s] = b]
  BY DEF Begin
<1>2. c \in Seq(Messages) /\ Placed(c) /\ q \in 1..Len(c) /\ c[q].role = "user"
      /\ (~torn' => Question(c, q))
  OBVIOUS
<1> HIDE DEF c
<1>3. /\ h \in Seq(Messages) /\ (legal => Legal(h))
      /\ \E t \in 1..Len(h) : Question(h, t) /\ (Question(c, q) => h[t] = c[q])
      /\ Cost(h) <= Budget \/ Len(h) = Pinned(h) + 1
  BY <1>2, FirstRequest
<1>4. legal \in BOOLEAN  BY DEF Legal
<1> HIDE DEF h, legal
<1>5. b \in Turns /\ b.history = h /\ b.request = q /\ b.sound = legal
  BY <1>3, <1>4, IdleIs DEF Turns, Idle
<1> HIDE DEF b
<1>6. /\ pc'[s] = "asking" /\ turn'[s] = b
      /\ pc' \in [Sockets -> PCs] /\ turn' \in [Sockets -> Turns]
      /\ \A t \in Sockets \ {s} : pc'[t] = pc[t] /\ turn'[t] = turn[t]
  BY <1>1, <1>5 DEF PCs
<1>7. Folds(s)'  BY <1>6 DEF Folds, Folding
<1>8. Asks(s)'
  <2>1. PICK t \in 1..Len(h) : Question(h, t) /\ (Question(c, q) => h[t] = c[q])  BY <1>3
  <2>2. c[q].at = q  BY <1>2 DEF Placed
  <2>3. ~torn' => h[t].at = q  BY <2>1, <2>2, <1>2
  <2> QED  BY <2>1, <2>3, <1>5, <1>6 DEF Asks
<1>9. Sends(s)'  BY <1>3, <1>5, <1>6 DEF Sends
<1>10. Stores(s)'  BY <1>2, <1>5, <1>6 DEF Stores, c
<1> QED  BY <1>6, <1>7, <1>8, <1>9, <1>10 DEF TurnInv

LEMMA UserMessageArrivesKeeps ==
  ASSUME ChatInv, NEW s \in Sockets, UserMessageArrives(s)
  PROVE  ChatInv'
<1> DEFINE q == Len(stored) + 1
           m == UserMessage(q)
<1>1. /\ stored \in Seq(Messages) /\ summarised \in 0..Len(stored) /\ torn \in BOOLEAN
      /\ pc \in [Sockets -> PCs] /\ turn \in [Sockets -> Turns]
      /\ Placed(stored) /\ OneTurn /\ Settled
  BY DEF ChatInv, ChatTypeOK, PCs
<1>2. Len(stored) \in Nat /\ q \in Nat /\ m \in Messages /\ m.role = "user" /\ m.at = q
  <2>1. Len(stored) \in Nat /\ q \in Nat  BY <1>1, PositionsAre
  <2> HIDE DEF q
  <2> QED  BY <2>1, MessagesAre
<1> HIDE DEF m
<1>3. /\ Append(stored, m) \in Seq(Messages) /\ Len(Append(stored, m)) = q
      /\ Append(stored, m)[q] = m
      /\ \A x \in 1..Len(stored) : Append(stored, m)[x] = stored[x]
      /\ Question(Append(stored, m), q)
  BY <1>1, <1>2, Appended, QuestionGoesOn
<1>4. /\ pc[s] = "idle" /\ stored' = Append(stored, m) /\ summarised' = summarised
      /\ torn' = (torn \/ \E t \in Sockets : t # s /\ pc[t] \in InTurn)
      /\ \/ q - Keep > summarised /\ Summarise(s, "compacting", stored', q)
         \/ Begin(s, stored', summarised, q)
  <2>1. Len(Append(stored, m)) = q  BY <1>3
  <2> QED  BY <2>1 DEF UserMessageArrives, m
<1>5. Placed(stored')
  <2>1. ASSUME NEW i \in 1..Len(stored') PROVE stored'[i].at = i /\ stored'[i].role # "system"
    <3>1. CASE i = q  BY <3>1, <1>2, <1>3, <1>4
    <3>2. CASE i # q
      <4>1. i \in 1..Len(stored)  BY <3>2, <1>2, <1>3, <1>4
      <4>2. stored'[i] = stored[i]  BY <4>1, <1>3, <1>4
      <4> QED  BY <4>1, <4>2, <1>1 DEF Placed
    <3> QED  BY <3>1, <3>2
  <2> QED  BY <2>1 DEF Placed
<1>6. /\ stored' \in Seq(Messages) /\ summarised' \in 0..Len(stored') /\ torn' \in BOOLEAN
      /\ q \in 1..Len(stored') /\ stored'[q].role = "user" /\ Question(stored', q)
      /\ summarised \in Nat /\ summarised < q
  <2>1. torn' \in BOOLEAN  BY <1>4
  <2> QED  BY <2>1, <1>1, <1>2, <1>3, <1>4
<1>7. /\ pc' \in [Sockets -> PCs] /\ turn' \in [Sockets -> Turns]
      /\ pc'[s] \in {"compacting", "asking"} /\ TurnInv(s)'
      /\ \A t \in Sockets \ {s} : pc'[t] = pc[t] /\ turn'[t] = turn[t]
  <2>1. CASE Begin(s, stored', summarised, q)
    BY <2>1, <1>1, <1>2, <1>5, <1>6, BeginSends
  <2>2. CASE q - Keep > summarised /\ Summarise(s, "compacting", stored', q)
    <3>1. "compacting" \in Folding /\ Len(stored') = q  BY <1>3, <1>4 DEF Folding
    <3> HIDE DEF q
    <3>2. /\ pc' \in [Sockets -> PCs] /\ turn' \in [Sockets -> Turns]
          /\ pc'[s] = "compacting"
          /\ \A t \in Sockets \ {s} : pc'[t] = pc[t] /\ turn'[t] = turn[t]
          /\ AsksSummary(turn'[s], stored')
          /\ turn'[s].request = q /\ turn'[s].known = summarised /\ turn'[s].fold < q
      BY <2>2, <3>1, <1>1, <1>2, <1>5, <1>6, SummariseIs
    <3>3. Folds(s)'  BY <3>2, <1>6 DEF Folds
    <3>4. Asks(s)' /\ Sends(s)'  BY <3>2 DEF Asks, Sends
    <3>5. Stores(s)'  BY <3>2, <1>6 DEF Stores
    <3> QED  BY <3>2, <3>3, <3>4, <3>5 DEF TurnInv
  <2> QED  BY <2>1, <2>2, <1>4
<1>8. ~torn' => ~torn /\ \A t \in Sockets \ {s} : pc[t] \notin InTurn
  BY <1>4
<1>9. OneTurn'
  <2> SUFFICES ASSUME ~torn', NEW t \in Sockets, NEW u \in Sockets,
                      pc'[t] \in InTurn, pc'[u] \in InTurn
               PROVE  t = u
    BY DEF OneTurn
  <2>1. t = s /\ u = s  BY <1>7, <1>8
  <2> QED  BY <2>1
<1>10. Settled'
  <2> SUFFICES ASSUME ~torn' PROVE Legal(stored')  BY DEF Settled
  <2>1. \A t \in Sockets : pc[t] # "calling"  BY <1>4, <1>8 DEF InTurn
  <2>2. Legal(stored)  BY <2>1, <1>1, <1>8 DEF Settled
  <2> QED  BY <2>2, <1>1, <1>2, <1>4, LegalGoesOn
<1>11. ASSUME NEW t \in Sockets PROVE TurnInv(t)'
  <2>1. CASE t = s  BY <2>1, <1>7
  <2>2. CASE t # s
    <3>1. TurnInv(t)  BY DEF ChatInv
    <3>2. /\ pc'[t] = pc[t] /\ turn'[t] = turn[t] /\ (torn => torn')
          /\ ~torn' => pc[t] \notin InTurn
          /\ \E x \in Messages : stored' = Append(stored, x)
      BY <2>2, <1>2, <1>4, <1>7, <1>8
    <3> QED  BY <3>1, <3>2, OthersGoOn
  <2> QED  BY <2>1, <2>2
<1>12. ChatTypeOK'  BY <1>6, <1>7 DEF ChatTypeOK, PCs
<1> QED  BY <1>5, <1>9, <1>10, <1>11, <1>12 DEF ChatInv

LEMMA FoldedKeeps ==
  ASSUME ChatInv, NEW s \in Sockets, Folded(s)
  PROVE  ChatInv'
<1>1. /\ stored \in Seq(Messages) /\ summarised \in 0..Len(stored) /\ torn \in BOOLEAN
      /\ pc \in [Sockets -> PCs] /\ turn \in [Sockets -> Turns] /\ Len(stored) \in Nat
      /\ Placed(stored) /\ OneTurn /\ Settled /\ TurnInv(s) /\ ChatTypeOK
  <2>1. stored \in Seq(Messages)  BY DEF ChatInv, ChatTypeOK
  <2>2. Len(stored) \in Nat  BY <2>1, PositionsAre
  <2> QED  BY <2>2 DEF ChatInv, ChatTypeOK, PCs
<1> DEFINE q == turn[s].request
           f == turn[s].fold
           k == turn[s].known
<1>2. q \in Nat /\ f \in Nat /\ k \in Nat
  <2>1. turn[s] \in Turns  BY <1>1
  <2> QED  BY <2>1, TurnsAre
<1>3. stored' = stored /\ torn' = torn  BY DEF Folded
<1>4. CASE pc[s] = "folding"
  <2>1. /\ summarised' \in {f, summarised}
        /\ pc' = [pc EXCEPT ![s] = "idle"] /\ turn' = [turn EXCEPT ![s] = Idle]
    BY <1>4 DEF Folded
  <2>2. f \in 1..Len(stored)  BY <1>1, <1>4 DEF TurnInv, Folds, Folding, AsksSummary
  <2>3. /\ pc'[s] = "idle" /\ pc' \in [Sockets -> PCs] /\ turn' \in [Sockets -> Turns]
        /\ \A t \in Sockets \ {s} : pc'[t] = pc[t] /\ turn'[t] = turn[t]
    BY <2>1, <1>1, IdleIs DEF PCs
  <2>4. summarised' \in 0..Len(stored')  BY <2>1, <2>2, <1>1, <1>2, <1>3
  <2>5. ChatTypeOK'  BY <2>3, <2>4, <1>1, <1>3 DEF ChatTypeOK, PCs
  <2>6. OneTurn' /\ Settled' /\ Placed(stored)'
    <3>1. pc'[s] \notin InTurn /\ pc[s] # "calling"  BY <2>3, <1>4 DEF InTurn
    <3> QED  BY <3>1, <2>3, <1>3, FewerTurns
  <2>7. ASSUME NEW t \in Sockets PROVE TurnInv(t)'
    <3>1. CASE t = s  BY <3>1, <2>3, NoTurn
    <3>2. CASE t # s
      <4>1. TurnInv(t)  BY DEF ChatInv
      <4> QED  BY <3>2, <4>1, <2>3, <1>3, OthersGoOn
    <3> QED  BY <3>1, <3>2
  <2> QED  BY <2>5, <2>6, <2>7 DEF ChatInv
<1>5. CASE pc[s] = "compacting"
  <2>1. \/ summarised' = f /\ Begin(s, stored, f, q)
        \/ summarised' = summarised /\ Begin(s, stored, k, q)
    BY <1>5 DEF Folded
  <2>2. /\ q \in 1..Len(stored) /\ stored[q].role = "user" /\ f < q /\ k < q
    BY <1>1, <1>5 DEF TurnInv, Folds
  <2>3. ~torn => Question(stored, q)  BY <1>1, <1>5 DEF TurnInv, Stores, InTurn
  <2>4. summarised' \in 0..Len(stored')  BY <2>1, <2>2, <1>1, <1>2, <1>3
  <2>5. PICK n \in {f, k} : Begin(s, stored', n, q)  BY <2>1, <1>3
  <2>6. /\ pc' \in [Sockets -> PCs] /\ turn' \in [Sockets -> Turns]
        /\ pc'[s] = "asking" /\ TurnInv(s)'
        /\ \A t \in Sockets \ {s} : pc'[t] = pc[t] /\ turn'[t] = turn[t]
    <3>1. n \in Nat /\ n < q  BY <2>2, <1>2
    <3>2. /\ stored' \in Seq(Messages) /\ Placed(stored') /\ q \in 1..Len(stored')
          /\ stored'[q].role = "user" /\ (~torn' => Question(stored', q))
      BY <2>2, <2>3, <1>1, <1>3
    <3> HIDE DEF f, k, q
    <3> QED  BY <3>1, <3>2, <2>5, <1>1, <1>2, BeginSends
  <2>7. OneTurn'
    <3> SUFFICES ASSUME ~torn', NEW t \in Sockets, NEW u \in Sockets,
                        pc'[t] \in InTurn, pc'[u] \in InTurn
                 PROVE  t = u
      BY DEF OneTurn
    <3>1. pc[s] \in InTurn  BY <1>5 DEF InTurn
    <3>2. pc[t] \in InTurn /\ pc[u] \in InTurn  BY <2>6, <3>1
    <3> QED  BY <3>2, <1>1, <1>3 DEF OneTurn
  <2>8. Settled'
    <3> SUFFICES ASSUME ~torn', \A t \in Sockets : pc'[t] # "calling" PROVE Legal(stored')
      BY DEF Settled
    <3>1. \A t \in Sockets : pc[t] # "calling"  BY <2>6, <1>5
    <3> QED  BY <3>1, <1>1, <1>3 DEF Settled
  <2>9. ASSUME NEW t \in Sockets PROVE TurnInv(t)'
    <3>1. CASE t = s  BY <3>1, <2>6
    <3>2. CASE t # s
      <4>1. TurnInv(t)  BY DEF ChatInv
      <4> QED  BY <3>2, <4>1, <2>6, <1>3, OthersGoOn
    <3> QED  BY <3>1, <3>2
  <2>10. ChatTypeOK'  BY <2>4, <2>6, <1>1, <1>3 DEF ChatTypeOK, PCs
  <2>11. Placed(stored)'  BY <1>1, <1>3
  <2> QED  BY <2>7, <2>8, <2>9, <2>10, <2>11 DEF ChatInv
<1>6. pc[s] = "folding" \/ pc[s] = "compacting"  BY DEF Folded
<1> QED  BY <1>4, <1>5, <1>6

-----------------------------------------------------------------------------
(* Rounds.                                                                 *)

\* What a step of a running turn relies on and changes: it stores a message,
\* if it does, and no other turn runs unless the conversation is torn.
LEMMA RoundKeeps ==
  ASSUME ChatInv, NEW s \in Sockets, pc[s] \in InTurn,
         UNCHANGED <<summarised, torn>>,
         stored' = stored \/ \E m \in Messages : /\ stored' = Append(stored, m)
                                                 /\ m.at = Len(stored) + 1
                                                 /\ m.role # "system",
         pc' \in [Sockets -> PCs], turn' \in [Sockets -> Turns],
         \A t \in Sockets \ {s} : pc'[t] = pc[t] /\ turn'[t] = turn[t],
         TurnInv(s)',
         ~torn /\ pc'[s] # "calling" => Legal(stored')
  PROVE  ChatInv'
<1>1. /\ stored \in Seq(Messages) /\ summarised \in 0..Len(stored) /\ torn \in BOOLEAN
      /\ Len(stored) \in Nat /\ Placed(stored) /\ OneTurn /\ Settled /\ ChatTypeOK
  <2>1. stored \in Seq(Messages)  BY DEF ChatInv, ChatTypeOK
  <2>2. Len(stored) \in Nat  BY <2>1, PositionsAre
  <2> QED  BY <2>2 DEF ChatInv, ChatTypeOK
<1>2. stored' \in Seq(Messages) /\ summarised' \in 0..Len(stored') /\ Placed(stored')
  <2>1. CASE stored' = stored  BY <2>1, <1>1
  <2>2. CASE stored' # stored
    <3>1. PICK m \in Messages : /\ stored' = Append(stored, m)
                                /\ m.at = Len(stored) + 1 /\ m.role # "system"
      BY <2>2
    <3>2. /\ stored' \in Seq(Messages) /\ Len(stored') = Len(stored) + 1
          /\ stored'[Len(stored) + 1] = m
          /\ \A x \in 1..Len(stored) : stored'[x] = stored[x]
      BY <3>1, <1>1, Appended
    <3>3. ASSUME NEW i \in 1..Len(stored') PROVE stored'[i].at = i /\ stored'[i].role # "system"
      <4>1. CASE i = Len(stored) + 1  BY <4>1, <3>1, <3>2
      <4>2. CASE i # Len(stored) + 1
        <5>1. i \in 1..Len(stored)  BY <4>2, <3>2, <1>1
        <5>2. stored'[i] = stored[i]  BY <5>1, <3>2
        <5> QED  BY <5>1, <5>2, <1>1 DEF Placed
      <4> QED  BY <4>1, <4>2
    <3>4. summarised' \in 0..Len(stored')  BY <3>2, <1>1
    <3> QED  BY <3>2, <3>3, <3>4 DEF Placed
  <2> QED  BY <2>1, <2>2
<1>3. ~torn => \A t \in Sockets \ {s} : pc[t] \notin InTurn  BY <1>1 DEF OneTurn
<1>4. OneTurn'
  <2> SUFFICES ASSUME ~torn', NEW t \in Sockets, NEW u \in Sockets,
                      pc'[t] \in InTurn, pc'[u] \in InTurn
               PROVE  t = u
    BY DEF OneTurn
  <2>1. t = s /\ u = s  BY <1>3
  <2> QED  BY <2>1
<1>5. Settled'  BY DEF Settled
<1>6. ASSUME NEW t \in Sockets PROVE TurnInv(t)'
  <2>1. CASE t = s  BY <2>1
  <2>2. CASE t # s
    <3>1. TurnInv(t)  BY DEF ChatInv
    <3>2. /\ pc'[t] = pc[t] /\ turn'[t] = turn[t] /\ (torn => torn')
          /\ ~torn' => pc[t] \notin InTurn
          /\ stored' = stored \/ \E x \in Messages : stored' = Append(stored, x)
      BY <2>2, <1>3
    <3> QED  BY <3>1, <3>2, OthersGoOn
  <2> QED  BY <2>1, <2>2
<1>7. ChatTypeOK'  BY <1>1, <1>2 DEF ChatTypeOK, PCs
<1> QED  BY <1>2, <1>4, <1>5, <1>6, <1>7 DEF ChatInv

\* What is stored when a turn is asking is legal unless the conversation is
\* torn.
LEMMA AskingIsSettled ==
  ASSUME ChatInv, NEW s \in Sockets, pc[s] = "asking", ~torn
  PROVE  Legal(stored)
<1>1. OneTurn /\ Settled  BY DEF ChatInv
<1>2. \A t \in Sockets : pc[t] # "calling"  BY <1>1 DEF OneTurn, InTurn
<1> QED  BY <1>1, <1>2 DEF Settled

LEMMA RepliedKeeps ==
  ASSUME ChatInv, NEW s \in Sockets, Replied(s)
  PROVE  ChatInv'
<1> DEFINE e == Len(stored) + 1
           T == turn[s]
<1>1. /\ stored \in Seq(Messages) /\ Len(stored) \in Nat /\ e \in Nat
      /\ pc \in [Sockets -> PCs] /\ turn \in [Sockets -> Turns] /\ TurnInv(s)
  <2>1. stored \in Seq(Messages)  BY DEF ChatInv, ChatTypeOK
  <2>2. Len(stored) \in Nat  BY <2>1, PositionsAre
  <2> QED  BY <2>1, <2>2 DEF ChatInv, ChatTypeOK, PCs
<1>2. pc[s] = "asking" /\ UNCHANGED <<summarised, torn>>  BY DEF Replied
<1>3. PICK text \in BOOLEAN, n \in 0..CallsPerReply :
        /\ stored' = IF text \/ n > 0 THEN Append(stored, Reply(e, n)) ELSE stored
        /\ IF n = 0 THEN pc' = [pc EXCEPT ![s] = "idle"] /\ turn' = [turn EXCEPT ![s] = Idle]
           ELSE /\ pc' = [pc EXCEPT ![s] = "calling"]
                /\ turn' = [turn EXCEPT ![s] = [T EXCEPT
                     !.history = Append(@, Reply(e, n)), !.announced = Reply(e, n).at,
                     !.calls = n, !.next = 1]]
  BY DEF Replied
<1> DEFINE m == Reply(e, n)
<1>4. n \in Nat /\ m \in Messages /\ m.role = "assistant" /\ m.at = e /\ m.calls = n
  <2>1. n \in Nat  BY BoundsAre
  <2> HIDE DEF e
  <2> QED  BY <2>1, <1>1, MessagesAre
<1> HIDE DEF m
<1>5. stored' = stored \/ \E x \in Messages : /\ stored' = Append(stored, x)
                                              /\ x.at = Len(stored) + 1 /\ x.role # "system"
  BY <1>3, <1>4 DEF m
<1>6. pc[s] \in InTurn  BY <1>2 DEF InTurn
<1>7. ~torn => Legal(stored)  BY <1>2, AskingIsSettled
<1>8. CASE n = 0
  <2>1. pc' = [pc EXCEPT ![s] = "idle"] /\ turn' = [turn EXCEPT ![s] = Idle]
    BY <1>3, <1>8
  <2>2. /\ pc'[s] = "idle" /\ pc' \in [Sockets -> PCs] /\ turn' \in [Sockets -> Turns]
        /\ \A t \in Sockets \ {s} : pc'[t] = pc[t] /\ turn'[t] = turn[t]
    BY <2>1, <1>1, IdleIs DEF PCs
  <2>3. TurnInv(s)'  BY <2>2, NoTurn
  <2>4. Legal(stored) => Legal(Append(stored, m))  BY <1>1, <1>4, <1>8, LegalGoesOn
  <2>5. ~torn => Legal(stored')
    <3>1. stored' = stored \/ stored' = Append(stored, m)  BY <1>3 DEF m
    <3> QED  BY <3>1, <2>4, <1>7
  <2> QED  BY <2>2, <2>3, <2>5, <1>2, <1>5, <1>6, RoundKeeps
<1>9. CASE n # 0
  <2> DEFINE u == [T EXCEPT !.history = Append(@, m), !.announced = m.at, !.calls = n,
                            !.next = 1]
  <2>1. /\ stored' = Append(stored, m) /\ pc' = [pc EXCEPT ![s] = "calling"]
        /\ turn' = [turn EXCEPT ![s] = u]
    <3>1. n > 0  BY <1>4, <1>9
    <3>2. /\ pc' = [pc EXCEPT ![s] = "calling"]
          /\ turn' = [turn EXCEPT ![s] = u]
      BY <1>3, <1>9 DEF m
    <3>3. stored' = Append(stored, m)  BY <3>1, <1>3 DEF m
    <3> QED  BY <3>2, <3>3
  <2>2. /\ T \in Turns /\ T.history \in Seq(Messages) /\ T.request \in Nat
        /\ Append(T.history, m) \in Seq(Messages)
    <3>1. T \in Turns  BY <1>1
    <3>2. T.history \in Seq(Messages)  BY <3>1, TurnsAre
    <3> QED  BY <3>1, <3>2, <1>4, TurnsAre, Appended
  <2>3. /\ u \in Turns /\ u.history = Append(T.history, m) /\ u.announced = e
        /\ u.calls = n /\ u.next = 1 /\ u.request = T.request /\ u.sound = T.sound
    <3> HIDE DEF T, e
    <3> QED  BY <2>2, <1>1, <1>4 DEF Turns
  <2> HIDE DEF u
  <2>4. /\ pc'[s] = "calling" /\ turn'[s] = u
        /\ pc' \in [Sockets -> PCs] /\ turn' \in [Sockets -> Turns]
        /\ \A t \in Sockets \ {s} : pc'[t] = pc[t] /\ turn'[t] = turn[t]
    BY <2>1, <2>3, <1>1 DEF PCs
  <2>5. Folds(s)'  BY <2>4 DEF Folds, Folding
  <2>6. Asks(s)'
    <3>1. PICK q \in 1..Len(T.history) : /\ Question(T.history, q)
                                         /\ ~torn => T.history[q].at = T.request
      BY <1>1, <1>2 DEF TurnInv, Asks
    <3>2. Question(u.history, q) /\ u.history[q] = T.history[q]
      BY <3>1, <2>2, <2>3, <1>4, QuestionGoesOn
    <3>3. q \in 1..Len(u.history)  BY <3>2 DEF Question
    <3> QED  BY <3>1, <3>2, <3>3, <2>3, <2>4, <1>2 DEF Asks
  <2>7. Sends(s)'
    <3>1. T.sound => Legal(T.history)  BY <1>1, <1>2 DEF TurnInv, Sends
    <3>2. n >= 1 /\ 1 \in 1..n  BY <1>4, <1>9
    <3>3. T.sound => HalfAnswered(u.history, e, n, 1)
      BY <3>1, <3>2, <2>2, <2>3, <1>4, CallsBegin
    <3> QED  BY <3>2, <3>3, <2>3, <2>4 DEF Sends
  <2>8. Stores(s)'
    <3>1. ~torn => Question(stored, T.request)  BY <1>1, <1>6 DEF TurnInv, Stores
    <3>2. ~torn => Question(stored', T.request)
      BY <3>1, <2>1, <1>1, <1>4, QuestionGoesOn
    <3>3. n >= 1  BY <1>4, <1>9
    <3>4. ~torn => HalfAnswered(stored', e, n, 1)
      BY <3>3, <2>1, <1>1, <1>4, <1>7, CallsBegin
    <3> QED  BY <3>2, <3>4, <2>3, <2>4, <1>2 DEF Stores
  <2>9. TurnInv(s)'  BY <2>5, <2>6, <2>7, <2>8 DEF TurnInv
  <2> QED  BY <2>4, <2>9, <1>2, <1>5, <1>6, RoundKeeps
<1> QED  BY <1>8, <1>9

\* The last request of a turn says that it is the last one.
LEMMA NextRoundIs ==
  ASSUME NEW t \in Turns, NEW q \in 1..Len(t.history), Question(t.history, q)
  PROVE  LET n == NextRound(t)
         IN  /\ n \in Turns /\ n.request = t.request /\ n.sound = t.sound
             /\ Legal(t.history) => Legal(n.history)
             /\ \E u \in 1..Len(n.history) :
                  Question(n.history, u) /\ n.history[u] = t.history[q]
             /\ Cost(n.history) <= Budget \/ Len(n.history) = Pinned(n.history) + 1
<1> DEFINE c == IF t.round + 1 = MaxRounds THEN Append(t.history, SystemMessage)
                ELSE t.history
           n == NextRound(t)
           h == Trim(c)
<1>1. t.history \in Seq(Messages) /\ t.round \in Nat  BY TurnsAre
<1>2. SystemMessage \in Messages /\ SystemMessage.role = "system"  BY MessagesAre
<1>3. /\ c \in Seq(Messages) /\ (Legal(t.history) => Legal(c))
      /\ Question(c, q) /\ c[q] = t.history[q]
  <2>1. CASE t.round + 1 = MaxRounds
    <3> DEFINE a == Append(t.history, SystemMessage)
    <3>1. a \in Seq(Messages)  BY <1>1, <1>2, Appended
    <3>2. Legal(t.history) => Legal(a)  BY <1>1, <1>2, LegalGoesOn
    <3>3. Question(a, q) /\ a[q] = t.history[q]  BY <1>1, <1>2, QuestionGoesOn
    <3>4. c = a  BY <2>1
    <3> HIDE DEF a, c
    <3> QED  BY <3>1, <3>2, <3>3, <3>4
  <2>2. CASE t.round + 1 # MaxRounds
    <3>1. c = t.history  BY <2>2
    <3> HIDE DEF c
    <3> QED  BY <3>1, <1>1
  <2> QED  BY <2>1, <2>2
<1>4. n = [t EXCEPT !.round = t.round + 1, !.history = h]  BY DEF NextRound
<1> HIDE DEF c
<1>5. /\ h \in Seq(Messages) /\ (Legal(c) => Legal(h))
      /\ \E u \in 1..Len(h) : Question(h, u) /\ h[u] = c[q]
      /\ Cost(h) <= Budget \/ Len(h) = Pinned(h) + 1
  BY <1>3, NextRequest
<1> HIDE DEF h, n
<1>6. n \in Turns /\ n.request = t.request /\ n.sound = t.sound /\ n.history = h
  <2> DEFINE j == t.round + 1
  <2>1. j \in Nat /\ n = [t EXCEPT !.round = j, !.history = h]  BY <1>1, <1>4
  <2>2. t \in Turns /\ h \in Seq(Messages)  BY <1>5
  <2> HIDE DEF j
  <2> QED  BY ONLY <2>1, <2>2 DEF Turns
<1> QED  BY <1>3, <1>5, <1>6 DEF n

\* A call that is answered.
LEMMA AnswerKeeps ==
  ASSUME ChatInv, NEW s \in Sockets, pc[s] = "calling", Answer(s), UNCHANGED summarised
  PROVE  ChatInv'
<1> DEFINE T == turn[s]
           e == Len(stored) + 1
           m == ToolResult(e, T.announced, T.next)
           u == [T EXCEPT !.made = @ + 1, !.next = @ + 1, !.history = Append(@, m)]
<1>1. /\ stored \in Seq(Messages) /\ Len(stored) \in Nat /\ e \in Nat
      /\ pc \in [Sockets -> PCs] /\ turn \in [Sockets -> Turns] /\ TurnInv(s)
      /\ T \in Turns /\ pc[s] \in InTurn
  <2>1. stored \in Seq(Messages)  BY DEF ChatInv, ChatTypeOK
  <2>2. Len(stored) \in Nat  BY <2>1, PositionsAre
  <2> QED  BY <2>1, <2>2 DEF ChatInv, ChatTypeOK, PCs, InTurn
<1>2. /\ stored' = Append(stored, m) /\ torn' = torn /\ summarised' = summarised
      /\ \/ T.next < T.calls /\ turn' = [turn EXCEPT ![s] = u] /\ pc' = pc
         \/ /\ T.next = T.calls
            /\ turn' = [turn EXCEPT ![s] = NextRound(u)] /\ pc' = [pc EXCEPT ![s] = "asking"]
         \/ /\ T.next = T.calls
            /\ turn' = [turn EXCEPT ![s] = Idle] /\ pc' = [pc EXCEPT ![s] = "idle"]
  <2>1. T.next \in 1..T.calls  BY <1>1 DEF TurnInv, Sends
  <2>2. T.next \in Nat /\ T.calls \in Nat /\ T.round \in Nat  BY <1>1, TurnsAre
  <2>3. stored' = Append(stored, m) /\ torn' = torn /\ summarised' = summarised
    BY DEF Answer
  <2>4. CASE T.next < T.calls
    <3>1. turn' = [turn EXCEPT ![s] = u] /\ pc' = pc
      BY <2>2, <2>4 DEF Answer
    <3> QED  BY <2>3, <2>4, <3>1
  <2>5. CASE T.next = T.calls
    <3>1. \/ turn' = [turn EXCEPT ![s] = NextRound(u)] /\ pc' = [pc EXCEPT ![s] = "asking"]
          \/ turn' = [turn EXCEPT ![s] = Idle] /\ pc' = [pc EXCEPT ![s] = "idle"]
      BY <2>2, <2>5 DEF Answer
    <3> QED  BY <2>3, <2>5, <3>1
  <2> QED  BY <2>1, <2>2, <2>4, <2>5
<1>3. m \in Messages /\ m.role = "tool" /\ m.at = e /\ m.of = T.announced /\ m.call = T.next
  <2>1. T.announced \in Nat /\ T.next \in Nat  BY <1>1, TurnsAre
  <2> HIDE DEF T, e
  <2> QED  BY <2>1, <1>1 DEF ToolResult, SystemMessage, Messages, Roles
<1> HIDE DEF m
<1>4. /\ T.history \in Seq(Messages) /\ T.request \in Nat /\ T.announced \in Nat
      /\ T.calls \in Nat /\ T.next \in Nat /\ T.made \in Nat /\ T.sound \in BOOLEAN
      /\ Append(T.history, m) \in Seq(Messages)
  <2>1. T.history \in Seq(Messages)  BY <1>1, TurnsAre
  <2> HIDE DEF T
  <2> QED  BY <2>1, <1>1, <1>3, TurnsAre, Appended
<1>5. /\ u \in Turns /\ u.history = Append(T.history, m) /\ u.next = T.next + 1
      /\ u.announced = T.announced /\ u.calls = T.calls /\ u.request = T.request
      /\ u.sound = T.sound
  <2> DEFINE h == Append(T.history, m)
             j == T.made + 1
             k == T.next + 1
  <2>1. /\ h \in Seq(Messages) /\ j \in Nat /\ k \in Nat /\ T \in Turns
        /\ u = [T EXCEPT !.made = j, !.next = k, !.history = h]
    BY <1>1, <1>4
  <2> HIDE DEF h, j, k, T, u
  <2>2. /\ u \in Turns /\ u.history = h /\ u.next = k
        /\ u.announced = T.announced /\ u.calls = T.calls /\ u.request = T.request
        /\ u.sound = T.sound
    BY <2>1 DEF Turns
  <2> QED  BY <2>2 DEF h, k
<1> HIDE DEF u
\* What holds of the history and of what is stored, once the result is there.
<1>6. \E q \in 1..Len(u.history) : /\ Question(u.history, q)
                                   /\ ~torn => u.history[q].at = u.request
  <2>1. PICK q \in 1..Len(T.history) : /\ Question(T.history, q)
                                       /\ ~torn => T.history[q].at = T.request
    BY <1>1 DEF TurnInv, Asks
  <2>2. Question(u.history, q) /\ u.history[q] = T.history[q]
    BY <2>1, <1>3, <1>4, <1>5, QuestionGoesOn
  <2>3. q \in 1..Len(u.history)  BY <2>2 DEF Question
  <2> QED  BY <2>1, <2>2, <2>3, <1>5
<1>7. /\ T.next < T.calls /\ T.sound =>
           HalfAnswered(u.history, T.announced, T.calls, T.next + 1)
      /\ T.next = T.calls /\ T.sound => Legal(u.history)
  <2>1. T.sound => HalfAnswered(T.history, T.announced, T.calls, T.next)
    BY <1>1 DEF TurnInv, Sends
  <2> QED  BY <2>1, <1>3, <1>4, <1>5, CallsGoOn
<1>8. /\ T.next < T.calls /\ ~torn =>
           HalfAnswered(stored', T.announced, T.calls, T.next + 1)
      /\ T.next = T.calls /\ ~torn => Legal(stored')
  <2>1. ~torn => HalfAnswered(stored, T.announced, T.calls, T.next)
    BY <1>1 DEF TurnInv, Stores
  <2>2. stored' = Append(stored, m)  BY <1>2
  <2> HIDE DEF T
  <2> QED  BY <2>1, <2>2, <1>1, <1>3, <1>4, CallsGoOn
<1>9. ~torn => Question(stored', T.request)
  <2>1. ~torn => Question(stored, T.request)  BY <1>1 DEF TurnInv, Stores
  <2>2. stored' = Append(stored, m)  BY <1>2
  <2> QED  BY <2>1, <2>2, <1>1, <1>3, QuestionGoesOn
<1>10. \E x \in Messages : /\ stored' = Append(stored, x)
                           /\ x.at = Len(stored) + 1 /\ x.role # "system"
  BY <1>2, <1>3
<1>11. CASE T.next < T.calls /\ turn' = [turn EXCEPT ![s] = u] /\ pc' = pc
  <2>1. /\ pc'[s] = "calling" /\ turn'[s] = u
        /\ pc' \in [Sockets -> PCs] /\ turn' \in [Sockets -> Turns]
        /\ \A t \in Sockets \ {s} : pc'[t] = pc[t] /\ turn'[t] = turn[t]
    BY <1>1, <1>5, <1>11
  <2>2. T.next + 1 \in 1..T.calls  BY <1>4, <1>11
  <2> HIDE DEF T
  <2>3. Folds(s)'  BY <2>1 DEF Folds, Folding
  <2>4. Asks(s)'  BY <2>1, <1>2, <1>6 DEF Asks
  <2>5. Sends(s)'  BY <2>1, <2>2, <1>5, <1>7, <1>11 DEF Sends
  <2>6. Stores(s)'  BY <2>1, <1>2, <1>5, <1>8, <1>9, <1>11 DEF Stores
  <2>7. TurnInv(s)'  BY <2>3, <2>4, <2>5, <2>6 DEF TurnInv
  <2> QED  BY <2>1, <2>7, <1>1, <1>2, <1>10, RoundKeeps
<1>12. CASE /\ T.next = T.calls
            /\ turn' = [turn EXCEPT ![s] = NextRound(u)] /\ pc' = [pc EXCEPT ![s] = "asking"]
  <2> DEFINE n == NextRound(u)
  <2>1. PICK q \in 1..Len(u.history) : /\ Question(u.history, q)
                                       /\ ~torn => u.history[q].at = u.request
    BY <1>6
  <2>2. /\ n \in Turns /\ n.request = u.request /\ n.sound = u.sound
        /\ Legal(u.history) => Legal(n.history)
        /\ \E x \in 1..Len(n.history) :
             Question(n.history, x) /\ n.history[x] = u.history[q]
        /\ Cost(n.history) <= Budget \/ Len(n.history) = Pinned(n.history) + 1
    BY <2>1, <1>5, NextRoundIs
  <2> HIDE DEF n
  <2>3. /\ pc'[s] = "asking" /\ turn'[s] = n
        /\ pc' \in [Sockets -> PCs] /\ turn' \in [Sockets -> Turns]
        /\ \A t \in Sockets \ {s} : pc'[t] = pc[t] /\ turn'[t] = turn[t]
    BY <2>2, <1>1, <1>12 DEF PCs, n
  <2> HIDE DEF T
  <2>4. Folds(s)'  BY <2>3 DEF Folds, Folding
  <2>5. Asks(s)'
    <3>1. PICK x \in 1..Len(n.history) :
            Question(n.history, x) /\ n.history[x] = u.history[q]
      BY <2>2
    <3> QED  BY <3>1, <2>1, <2>2, <2>3, <1>2 DEF Asks
  <2>6. Sends(s)'  BY <2>2, <2>3, <1>5, <1>7, <1>12 DEF Sends
  <2>7. Stores(s)'  BY <2>2, <2>3, <1>2, <1>5, <1>9 DEF Stores
  <2>8. TurnInv(s)'  BY <2>4, <2>5, <2>6, <2>7 DEF TurnInv
  <2>9. ~torn => Legal(stored')  BY <1>8, <1>12
  <2> QED  BY <2>3, <2>8, <2>9, <1>1, <1>2, <1>10, RoundKeeps
<1>13. CASE /\ T.next = T.calls
            /\ turn' = [turn EXCEPT ![s] = Idle] /\ pc' = [pc EXCEPT ![s] = "idle"]
  <2>1. /\ pc'[s] = "idle" /\ pc' \in [Sockets -> PCs] /\ turn' \in [Sockets -> Turns]
        /\ \A t \in Sockets \ {s} : pc'[t] = pc[t] /\ turn'[t] = turn[t]
    BY <1>1, <1>13, IdleIs DEF PCs
  <2>2. TurnInv(s)'  BY <2>1, NoTurn
  <2>3. ~torn => Legal(stored')  BY <1>8, <1>13
  <2> QED  BY <2>1, <2>2, <2>3, <1>1, <1>2, <1>10, RoundKeeps
<1> QED  BY <1>2, <1>11, <1>12, <1>13

LEMMA CalledKeeps ==
  ASSUME ChatInv, NEW s \in Sockets, Called(s)
  PROVE  ChatInv'
<1>1. pc[s] = "calling" /\ UNCHANGED summarised  BY DEF Called
<1>2. CASE Answer(s)  BY <1>1, <1>2, AnswerKeeps
<1>3. CASE UNCHANGED stored /\ (Leave(s, "idle") \/ Leave(s, "closed"))
  BY <1>1, <1>3, LeaveKeeps
<1> QED  BY <1>2, <1>3 DEF Called

-----------------------------------------------------------------------------
(* The theorems.                                                           *)

\* Every step of every websocket keeps the invariant.
LEMMA ChatNextKeeps ==
  ASSUME ChatInv, ChatNext
  PROVE  ChatInv'
<1>1. PICK s \in Sockets :
        Open(s) \/ UserMessageArrives(s) \/ CompactRequested(s) \/ Turn(s) \/ CutOff(s)
  BY DEF ChatNext
<1>2. CASE Open(s)  BY <1>2, OpenKeeps
<1>3. CASE UserMessageArrives(s)  BY <1>3, UserMessageArrivesKeeps
<1>4. CASE CompactRequested(s)  BY <1>4, CompactRequestedKeeps
<1>5. CASE Folded(s)  BY <1>5, FoldedKeeps
<1>6. CASE Replied(s)  BY <1>6, RepliedKeeps
<1>7. CASE Called(s)  BY <1>7, CalledKeeps
<1>8. CASE CutOff(s)  BY <1>8, CutOffKeeps
<1> QED  BY <1>1, <1>2, <1>3, <1>4, <1>5, <1>6, <1>7, <1>8 DEF Turn

LEMMA ChatInitHolds ==
  ASSUME ChatInit
  PROVE  ChatInv
<1>1. /\ stored = << >> /\ summarised = 0 /\ torn = FALSE
      /\ pc = [s \in Sockets |-> "closed"] /\ turn = [s \in Sockets |-> Idle]
  BY DEF ChatInit
<1>2. stored \in Seq(Messages) /\ Len(stored) = 0 /\ Legal(stored)
  BY <1>1, CostOfNothing, LegalNothing
<1>3. ChatTypeOK
  <2>1. pc \in [Sockets -> PCs] /\ turn \in [Sockets -> Turns]  BY <1>1, IdleIs DEF PCs
  <2>2. summarised \in 0..Len(stored)
    <3>1. 0 \in 0..0  OBVIOUS
    <3> QED  BY <3>1, <1>1, <1>2
  <2>3. torn \in BOOLEAN  BY <1>1
  <2> QED  BY <1>2, <2>1, <2>2, <2>3 DEF ChatTypeOK, PCs
<1>4. Placed(stored) /\ Settled  BY <1>2 DEF Placed, Settled
<1>5. OneTurn  BY <1>1 DEF OneTurn, InTurn
<1>6. \A s \in Sockets : TurnInv(s)
  BY <1>1 DEF TurnInv, Folds, Folding, Asks, Sends, Stores, InTurn
<1> QED  BY <1>3, <1>4, <1>5, <1>6 DEF ChatInv

LEMMA ChatStutterKeeps ==
  ASSUME ChatInv, UNCHANGED chatVars
  PROVE  ChatInv'
<1>1. /\ stored' = stored /\ summarised' = summarised /\ pc' = pc /\ turn' = turn
      /\ torn' = torn
  BY DEF chatVars
<1>2. ChatTypeOK' /\ Placed(stored)' /\ OneTurn' /\ Settled'
  BY <1>1 DEF ChatInv, ChatTypeOK, OneTurn, Settled
<1>3. ASSUME NEW s \in Sockets PROVE TurnInv(s)'
  <2>1. TurnInv(s)  BY DEF ChatInv
  <2> QED  BY <2>1, <1>1, OthersGoOn
<1> QED  BY <1>2, <1>3 DEF ChatInv

\* The invariant of the conversation: messages are stored in their order,
\* turns of two websockets do not overlap unless the conversation is torn, and
\* a turn knows its question, keeps it out of the summary and owes nothing but
\* the results it is collecting.
THEOREM ChatInvariance == ChatSpec => []ChatInv
<1>1. ChatInit => ChatInv  BY ChatInitHolds
<1>2. ChatInv /\ [ChatNext]_chatVars => ChatInv'  BY ChatNextKeeps, ChatStutterKeeps
<1> QED  BY <1>1, <1>2, PTL DEF ChatSpec

\* What is stored between the turns keeps the contract of the chat APIs,
\* unless two turns ran at once or one was left with calls unanswered
\* (AssistantChatService.handle_user_message).
THEOREM StoredAlwaysLegal == ChatSpec => []StoredIsLegal
<1>1. ChatInv => StoredIsLegal
  <2> SUFFICES ASSUME ChatInv, ~torn, \A s \in Sockets : pc[s] \notin InTurn
               PROVE  Legal(stored)
    BY DEF StoredIsLegal
  <2>1. \A s \in Sockets : pc[s] # "calling"  BY DEF InTurn
  <2> QED  BY <2>1 DEF ChatInv, Settled
<1> QED  BY <1>1, ChatInvariance, PTL

\* A turn that waits for a summary asked for it with an excerpt of what is
\* stored, legal as far as it is folded if the conversation was.
LEMMA FoldingAsks ==
  ASSUME ChatInv, NEW s \in Sockets, pc[s] \in Folding
  PROVE  /\ stored \in Seq(Messages) /\ Placed(stored) /\ AsksSummary(turn[s], stored)
         /\ turn[s].fold \in Nat /\ turn[s].fold <= Len(stored)
         /\ Divided(turn[s]) <=> Cut(turn[s].history, turn[s].fold)
<1>1. stored \in Seq(Messages) /\ Placed(stored) /\ AsksSummary(turn[s], stored)
  BY DEF ChatInv, ChatTypeOK, TurnInv, Folds
<1>2. Len(stored) \in Nat /\ turn[s].fold \in 1..Len(stored)
  BY <1>1, PositionsAre DEF AsksSummary
<1> QED  BY <1>1, <1>2 DEF Divided, Cut

\* Every window of a sound conversation that a turn sends keeps it too,
\* whatever _trim_to_context_limit and the summary left out; a request for a
\* summary keeps it just when _compact does not divide an announcement from
\* its results.
THEOREM WindowsAlwaysLegal == ChatSpec => []WindowsAreLegal
<1>1. ASSUME ChatInv, NEW s \in Sockets, turn[s].sound, pc[s] = "asking"
      PROVE  Legal(turn[s].history)
  BY <1>1 DEF ChatInv, TurnInv, Sends
<1>2. ASSUME ChatInv, NEW s \in Sockets, turn[s].sound, pc[s] \in Folding
      PROVE  Legal(turn[s].history) <=> ~Divided(turn[s])
  <2>1. /\ stored \in Seq(Messages) /\ Placed(stored) /\ AsksSummary(turn[s], stored)
        /\ turn[s].fold \in Nat /\ turn[s].fold <= Len(stored)
        /\ Divided(turn[s]) <=> Cut(turn[s].history, turn[s].fold)
    BY <1>2, FoldingAsks
  <2>2. PICK p, o, d : Excerpt(turn[s].history, stored, turn[s].fold, p, o, d)
    BY <2>1 DEF AsksSummary, Excerpted
  <2>3. Kept(stored, turn[s].fold)  BY <2>1, <1>2 DEF AsksSummary
  <2> QED  BY <2>1, <2>2, <2>3, ExcerptIsLegal
<1>3. ChatInv => WindowsAreLegal  BY <1>1, <1>2 DEF WindowsAreLegal, KeepsTo
<1> QED  BY <1>3, ChatInvariance, PTL

\* A turn's request holds the question it is to answer; it and a request for a
\* summary fit, unless what is always sent does not.
THEOREM QuestionAlwaysSent == ChatSpec => []QuestionIsSent
<1>1. ASSUME ChatInv, NEW s \in Sockets, pc[s] = "asking", ~torn
      PROVE  \E i \in DOMAIN turn[s].history :
               turn[s].history[i].role = "user" /\ turn[s].history[i].at = turn[s].request
  <2> DEFINE c == turn[s].history
  <2>1. TurnInv(s) /\ turn[s] \in Turns  BY <1>1 DEF ChatInv, ChatTypeOK
  <2>2. DOMAIN c = 1..Len(c)
    <3>1. c \in Seq(Messages)  BY <2>1, TurnsAre
    <3> HIDE DEF c
    <3> QED  BY <3>1, PositionsAre
  <2>3. PICK q \in 1..Len(c) : Question(c, q) /\ c[q].at = turn[s].request
    BY <1>1, <2>1 DEF TurnInv, Asks
  <2>4. c[q].role = "user"  BY <2>3 DEF Question
  <2> QED  BY <2>2, <2>3, <2>4
<1>2. ASSUME ChatInv, NEW s \in Sockets, pc[s] \in Folding \cup {"asking"}
      PROVE  \/ Cost(turn[s].history) <= Budget
             \/ Len(turn[s].history) = Pinned(turn[s].history) + 1
  <2>1. CASE pc[s] \in Folding  BY <2>1, <1>2, FoldingAsks DEF AsksSummary
  <2>2. CASE pc[s] = "asking"  BY <2>2, <1>2 DEF ChatInv, TurnInv, Sends
  <2> QED  BY <2>1, <2>2, <1>2
<1>3. ChatInv => QuestionIsSent  BY <1>1, <1>2 DEF QuestionIsSent
<1> QED  BY <1>3, ChatInvariance, PTL

-----------------------------------------------------------------------------
(* The translation for Anthropic.                                          *)

Said(msgs) == {i \in DOMAIN msgs : msgs[i].role # "system"}

\* The number of every result is one of a call that was announced.
Numbered(msgs) ==
  \A i, j \in 1..Len(msgs) :
    msgs[i].role = "assistant" /\ msgs[j].role = "tool" /\ msgs[j].of = msgs[i].at
    => msgs[j].call \in 1..msgs[i].calls

\* What is said are the messages without the system ones, by their ranks.
LEMMA SpokenIs ==
  ASSUME NEW msgs \in Seq(Messages)
  PROVE  LET D == Said(msgs)
             S == Spoken(msgs)
         IN  /\ DOMAIN S = 1..Len(S) /\ Len(S) = Cardinality(D) /\ Len(S) \in Nat
             /\ \A i \in D : /\ i \in 1..Len(msgs) /\ Rank(D, i) \in 1..Len(S)
                             /\ S[Rank(D, i)] = msgs[i]
             /\ \A k \in 1..Len(S) : \E i \in D : Rank(D, i) = k /\ S[k] = msgs[i]
<1> DEFINE D == Said(msgs)
           S == Spoken(msgs)
           N == Cardinality(D)
           P(k) == CHOOSE i \in D : Rank(D, i) = k
<1>1. Len(msgs) \in Nat /\ DOMAIN msgs = 1..Len(msgs)  BY PositionsAre
<1>2. \A x \in D : x \in 1..Len(msgs)  BY <1>1 DEF Said
<1>3. S = [k \in 1..N |-> msgs[P(k)]]  BY DEF Spoken, Said, Rank
<1> HIDE DEF D, S
<1>4. N \in Nat /\ \A i \in D : Rank(D, i) \in 1..N  BY <1>1, <1>2, RanksAre
<1>5. DOMAIN S = 1..N /\ Len(S) = N  BY <1>3, <1>4
<1>6. ASSUME NEW i \in D, NEW j \in D, Rank(D, i) = Rank(D, j) PROVE i = j
  <2>1. i \in Nat /\ j \in Nat  BY <1>2
  <2>2. Rank(D, i) \in Nat  BY <1>4
  <2>3. ~(Rank(D, i) < Rank(D, j)) /\ ~(Rank(D, j) < Rank(D, i))
    <3> DEFINE r == Rank(D, i)
    <3>1. Rank(D, j) = r /\ r \in Nat  BY <1>6, <2>2
    <3> HIDE DEF r
    <3>2. ~(r < r)  BY <3>1
    <3> QED  BY <3>1, <3>2 DEF r
  <2>4. ~(i < j)
    <3>1. i < j => Rank(D, i) < Rank(D, j)  BY <1>1, <1>2, <2>1, RankGrows
    <3> QED  BY <2>3, <3>1
  <2>5. ~(j < i)
    <3>1. j < i => Rank(D, j) < Rank(D, i)  BY <1>1, <1>2, <2>1, RankGrows
    <3> QED  BY <2>3, <3>1
  <2> QED  BY <2>1, <2>4, <2>5
<1>7. ASSUME NEW i \in D PROVE S[Rank(D, i)] = msgs[i]
  <2>1. P(Rank(D, i)) \in D /\ Rank(D, P(Rank(D, i))) = Rank(D, i)  OBVIOUS
  <2>2. P(Rank(D, i)) = i  BY <1>6, <2>1
  <2>3. S[Rank(D, i)] = msgs[P(Rank(D, i))]  BY <1>3, <1>4
  <2> QED  BY <2>2, <2>3
<1>8. ASSUME NEW k \in 1..N PROVE \E i \in D : Rank(D, i) = k /\ S[k] = msgs[i]
  <2>1. PICK i \in D : Rank(D, i) = k  BY <1>1, <1>2, PlaceOfRank
  <2> QED  BY <1>7, <2>1
<1> QED  BY <1>2, <1>4, <1>5, <1>7, <1>8 DEF D, S

\* A legal conversation whose results are numbered is legal translated.
LEMMA BlocksAre ==
  ASSUME NEW msgs \in Seq(Messages), Legal(msgs), Numbered(msgs)
  PROVE  LegalBlocks(Spoken(msgs))
<1> DEFINE D == Said(msgs)
           S == Spoken(msgs)
<1>1. /\ DOMAIN S = 1..Len(S) /\ Len(S) = Cardinality(D) /\ Len(S) \in Nat
      /\ \A i \in D : /\ i \in 1..Len(msgs) /\ Rank(D, i) \in 1..Len(S)
                      /\ S[Rank(D, i)] = msgs[i]
      /\ \A k \in 1..Len(S) : \E i \in D : Rank(D, i) = k /\ S[k] = msgs[i]
  BY SpokenIs
<1>2. /\ Len(msgs) \in Nat
      /\ \A i \in 1..Len(msgs) : msgs[i].calls \in Nat /\ (msgs[i].role # "system" <=> i \in D)
  BY PositionsAre DEF Said
<1>3. \A x \in D : x \in 1..Len(msgs)  BY <1>1
<1>4. ASSUME NEW i \in D, NEW j \in D, i < j PROVE Rank(D, i) < Rank(D, j)
  BY <1>2, <1>3, <1>4, RankGrows
<1> HIDE DEF D, S
<1> SUFFICES ASSUME NEW k \in 1..Len(S), S[k].role = "assistant", S[k].calls > 0
             PROVE  /\ k + 1 \in 1..Len(S) /\ S[k + 1].role = "tool"
                    /\ {S[j].call : j \in TurnOf(S, k + 1)} = 1..S[k].calls
  BY <1>1 DEF LegalBlocks, S
<1>5. PICK i \in D : Rank(D, i) = k /\ S[k] = msgs[i]  BY <1>1
<1> DEFINE n == msgs[i].calls
<1>6. /\ i \in 1..Len(msgs) /\ n \in Nat /\ n > 0 /\ i + n <= Len(msgs)
      /\ \A d \in 1..n : msgs[i + d].role = "tool" /\ msgs[i + d].call = d
  BY <1>2, <1>3, <1>5 DEF Legal, Answered
<1> HIDE DEF n
<1>7. ASSUME NEW d \in 0..n
      PROVE  /\ k + d \in 1..Len(S) /\ S[k + d] = msgs[i + d]
             /\ d # 0 => S[k + d].role = "tool" /\ S[k + d].call = d
  <2>1. ASSUME NEW e \in 1..n PROVE i + e \in D
    <3>1. i + e \in 1..Len(msgs)  BY <1>2, <1>6
    <3>2. msgs[i + e].role = "tool"  BY <1>6
    <3> QED  BY <1>2, <3>1, <3>2
  <2>2. d \in Nat /\ \A x \in (i + 1)..(i + d) : x - i \in 1..n /\ i + (x - i) = x
    BY <1>6
  <2>3. (i + 1)..(i + d) \subseteq D  BY <2>1, <2>2
  <2>4. Rank(D, i + d) = k + d  BY <1>2, <1>3, <1>5, <2>2, <2>3, RankOfRun
  <2>5. i + d \in D
    <3>1. CASE d = 0  BY <1>6, <3>1
    <3>2. CASE d # 0  BY <2>1, <3>2
    <3> QED  BY <3>1, <3>2
  <2>6. k + d \in 1..Len(S) /\ S[k + d] = msgs[i + d]  BY <1>1, <2>4, <2>5
  <2>7. d # 0 => d \in 1..n  OBVIOUS
  <2> QED  BY <1>6, <2>6, <2>7
<1>8. k + 1 \in 1..Len(S) /\ S[k + 1].role = "tool"
  <2>1. 1 \in 0..n  BY <1>6
  <2> QED  BY <1>7, <2>1
<1>9. ASSUME NEW d \in 1..n PROVE k + d \in TurnOf(S, k + 1) /\ S[k + d].call = d
  <2>1. d \in 0..n /\ d # 0  BY <1>6
  <2>2. k + d \in (k + 1)..Len(S) /\ S[k + d].call = d  BY <1>1, <1>7, <2>1
  <2>3. ASSUME NEW x \in (k + 1 + 1)..(k + d) PROVE x \notin Heads(S)
    <3> DEFINE e == x - k
    <3>1. e \in 0..n /\ e - 1 \in 0..n /\ e # 0 /\ e - 1 # 0 /\ k + e = x /\ k + (e - 1) = x - 1
      BY <1>6
    <3> HIDE DEF e
    <3>2. S[x].role = "tool" /\ S[x - 1].role = "tool"  BY <1>7, <3>1
    <3>3. x # 1  OBVIOUS
    <3> QED  BY <3>2, <3>3 DEF Heads
  <2> QED  BY <2>2, <2>3 DEF TurnOf
<1>10. ASSUME NEW j \in TurnOf(S, k + 1) PROVE S[j].call \in 1..n
  <2>1. j \in (k + 1)..Len(S) /\ \A x \in (k + 1 + 1)..j : x \notin Heads(S)  BY DEF TurnOf
  <2>2. ASSUME NEW x \in (k + 1)..j PROVE S[x].role = "tool"
    <3>1. CASE x = k + 1  BY <1>8, <3>1
    <3>2. CASE x # k + 1
      <4>1. x \in (k + 1 + 1)..j /\ x \in 1..Len(S)  BY <1>1, <2>1, <3>2
      <4> QED  BY <1>1, <2>1, <4>1 DEF Heads
    <3> QED  BY <3>1, <3>2
  <2>3. j \in 1..Len(S) /\ j \in Nat /\ k < j /\ j \in (k + 1)..j  BY <1>1, <2>1
  <2>4. PICK p \in D : Rank(D, p) = j /\ S[j] = msgs[p]  BY <1>1, <2>3
  <2>5. p \in 1..Len(msgs) /\ msgs[p].role = "tool"  BY <1>3, <2>2, <2>3, <2>4
  <2>6. PICK q \in 1..(p - 1) : /\ msgs[q].role = "assistant" /\ msgs[q].at = msgs[p].of
                                /\ \A m \in (q + 1)..p : msgs[m].role = "tool"
    BY <1>2, <2>5 DEF Legal, Announced
  <2>7. q \in 1..Len(msgs) /\ q \in D /\ q < p  BY <1>2, <2>5, <2>6
  <2> DEFINE r == Rank(D, q)
  <2>8. r \in 1..Len(S) /\ S[r] = msgs[q] /\ r < j  BY <1>1, <1>4, <2>4, <2>7
  <2> HIDE DEF r
  <2>9. ~(r > k)
    <3> SUFFICES ASSUME r > k PROVE FALSE  OBVIOUS
    <3>1. r \in (k + 1)..j  BY <1>1, <2>3, <2>8
    <3> QED  BY <2>2, <2>6, <2>8, <3>1
  <2>10. ~(i < q)  BY <1>4, <1>5, <2>7, <2>9 DEF r
  <2>11. ~(q < i)
    <3> SUFFICES ASSUME q < i PROVE FALSE  OBVIOUS
    <3>1. ~(p < i) /\ p # i
      <4>1. Rank(D, i) < Rank(D, p)  BY <1>5, <2>3, <2>4
      <4>2. Rank(D, i) \in Nat /\ Rank(D, p) \in Nat  BY <1>1
      <4> QED  BY <1>4, <4>1, <4>2
    <3>2. i \in (q + 1)..p  BY <1>6, <2>5, <2>7, <3>1
    <3>3. msgs[i].role = "assistant"  BY <1>5
    <3> QED  BY <2>6, <3>2, <3>3
  <2>12. q = i  BY <1>6, <2>7, <2>10, <2>11
  <2>13. msgs[p].call \in 1..msgs[i].calls  BY <1>5, <1>6, <2>5, <2>6, <2>12 DEF Numbered
  <2> QED  BY <2>4, <2>13 DEF n
<1>11. {S[j].call : j \in TurnOf(S, k + 1)} = 1..n  BY <1>9, <1>10
<1> QED  BY <1>5, <1>8, <1>11 DEF n

\* Every message of a is one of s.
Part(a, s) ==
  a \in Seq(Messages) /\ \A x \in 1..Len(a) : \E y \in 1..Len(s) : a[x] = s[y]

LEMMA PartOfPart ==
  ASSUME NEW s \in Seq(Messages), NEW a, Part(a, s), NEW b, Part(b, a)
  PROVE  Part(b, s)
BY DEF Part

LEMMA CutIsPart ==
  ASSUME NEW s \in Seq(Messages), NEW i \in 1..Len(s) + 1, NEW j \in 0..Len(s)
  PROVE  Part(SubSeq(s, i, j), s)
<1> DEFINE a == SubSeq(s, i, j)
<1>1. /\ a \in Seq(Messages) /\ Len(a) = IF i <= j THEN j - i + 1 ELSE 0
      /\ \A n \in 1..Len(a) : a[n] = s[n + i - 1]
  BY WindowOf
<1>2. Len(s) \in Nat  BY PositionsAre
<1> HIDE DEF a
<1>3. ASSUME NEW n \in 1..Len(a) PROVE \E y \in 1..Len(s) : a[n] = s[y]
  <2>1. i <= j /\ n \in 1..(j - i + 1)  BY <1>1, <1>2
  <2>2. n + i - 1 \in 1..Len(s)  BY <1>2, <2>1
  <2> QED  BY <1>1, <2>2
<1> QED  BY <1>1, <1>3 DEF Part, a

LEMMA OrphansDroppedIsPart ==
  ASSUME NEW s \in Seq(Messages)
  PROVE  Part(DropLeadingOrphan(s), s)
<1>1. CASE DropLeadingOrphan(s) = << >>
  BY <1>1, CostOfNothing DEF Part
<1>2. CASE \E f \in 1..Len(s) : DropLeadingOrphan(s) = SubSeq(s, f, Len(s))
  <2>1. PICK f \in 1..Len(s) : DropLeadingOrphan(s) = SubSeq(s, f, Len(s))  BY <1>2
  <2>2. f \in 1..Len(s) + 1 /\ Len(s) \in 0..Len(s)  BY PositionsAre
  <2> QED  BY <2>1, <2>2, CutIsPart
<1> QED  BY <1>1, <1>2, OrphansDropped

LEMMA TogetherIsPart ==
  ASSUME NEW s \in Seq(Messages), NEW a, Part(a, s), NEW b, Part(b, s)
  PROVE  Part(a \o b, s)
<1>1. a \in Seq(Messages) /\ b \in Seq(Messages)  BY DEF Part
<1> DEFINE c == a \o b
<1>2. /\ c \in Seq(Messages) /\ Len(c) = Len(a) + Len(b)
      /\ \A x \in 1..Len(a) + Len(b) : c[x] = IF x <= Len(a) THEN a[x] ELSE b[x - Len(a)]
  BY <1>1, Parts
<1>3. Len(a) \in Nat /\ Len(b) \in Nat  BY <1>1, PositionsAre
<1> HIDE DEF c
<1>4. ASSUME NEW x \in 1..Len(c) PROVE \E y \in 1..Len(s) : c[x] = s[y]
  <2>1. CASE x <= Len(a)
    <3>1. x \in 1..Len(a) /\ c[x] = a[x]  BY <2>1, <1>2, <1>3
    <3> QED  BY <3>1 DEF Part
  <2>2. CASE ~(x <= Len(a))
    <3>1. x - Len(a) \in 1..Len(b) /\ c[x] = b[x - Len(a)]  BY <2>2, <1>2, <1>3
    <3> QED  BY <3>1 DEF Part
  <2> QED  BY <2>1, <2>2
<1> QED  BY <1>2, <1>4 DEF Part, c

\* Trimming leaves messages out and makes none.
LEMMA TrimIsPart ==
  ASSUME NEW s \in Seq(Messages)
  PROVE  Part(Trim(s), s)
<1> DEFINE p == Pinned(s)
           r == RequestAt(s)
           used == Cost(SubSeq(s, 1, p)) + 1
           room(n) == IF used + n > Budget THEN 0 ELSE Budget - used - n
           work == SubSeq(s, r + 1, Len(s))
           kept == DropLeadingOrphan(Newest(work, room(0)))
           old == SubSeq(s, p + 1, r - 1)
           before == DropLeadingOrphan(Newest(old, room(Cost(work))))
           earlier == IF kept # work THEN << >> ELSE before
<1>1. Len(s) \in Nat /\ p \in 0..Len(s)  BY PositionsAre, PinnedIs DEF Instructions
<1>2. Part(s, s)  BY DEF Part
<1>3. CASE p = Len(s)
  <2>1. Trim(s) = s  BY <1>3 DEF Trim
  <2> QED  BY <1>2, <2>1
<1>4. CASE p # Len(s)
  <2>1. Trim(s) = SubSeq(s, 1, p) \o earlier \o <<s[r]>> \o kept
    BY <1>4 DEF Trim
  <2>2. r \in 1..Len(s)
    <3>1. CASE \E i \in 1..Len(s) : s[i].role = "user"
      BY <3>1, RequestIs DEF Question
    <3>2. CASE \A i \in 1..Len(s) : s[i].role # "user"
      <4>1. {i \in DOMAIN s : s[i].role = "user"} = {}  BY <3>2, PositionsAre
      <4>2. r = Len(s)  BY <4>1 DEF RequestAt
      <4> QED  BY <4>2, <1>1, <1>4
    <3> QED  BY <3>1, <3>2
  <2> HIDE DEF p, r
  <2>3. Part(SubSeq(s, 1, p), s) /\ Part(work, s) /\ Part(old, s)
    <3>1. /\ 1 \in 1..Len(s) + 1 /\ r + 1 \in 1..Len(s) + 1 /\ Len(s) \in 0..Len(s)
          /\ p + 1 \in 1..Len(s) + 1 /\ r - 1 \in 0..Len(s)
      BY <1>1, <2>2
    <3> QED  BY <1>1, <3>1, CutIsPart
  <2>4. ASSUME NEW a, Part(a, s), NEW k \in Nat
        PROVE  Part(DropLeadingOrphan(Newest(a, k)), s)
    <3>1. a \in Seq(Messages)  BY <2>4 DEF Part
    <3>2. PICK i \in 1..Len(a) + 1 : Newest(a, k) = SubSeq(a, i, Len(a))
      BY <3>1, NewestFits
    <3>3. Part(Newest(a, k), a)
      <4>1. Len(a) \in 0..Len(a)  BY <3>1, PositionsAre
      <4> QED  BY <3>1, <3>2, <4>1, CutIsPart
    <3>4. Newest(a, k) \in Seq(Messages)  BY <3>3 DEF Part
    <3>5. Part(DropLeadingOrphan(Newest(a, k)), Newest(a, k))  BY <3>4, OrphansDroppedIsPart
    <3> QED  BY <3>1, <3>3, <3>4, <3>5, <2>4, PartOfPart
  <2>5. \A n \in Nat : room(n) \in Nat
    <3>1. SubSeq(s, 1, p) \in Seq(Messages)  BY <2>3 DEF Part
    <3>2. Cost(SubSeq(s, 1, p)) \in Nat  BY <3>1, CostIs
    <3>3. used \in Nat /\ Budget \in Nat  BY <3>2, BoundsAre
    <3> HIDE DEF used
    <3> QED  BY <3>3
  <2>6. Cost(work) \in Nat
    <3>1. work \in Seq(Messages)  BY <2>3 DEF Part
    <3> QED  BY <3>1, CostIs
  <2> HIDE DEF room, work, old
  <2>7. Part(kept, s) /\ Part(before, s)  BY <2>3, <2>4, <2>5, <2>6
  <2>8. Part(<< >>, s)  BY CostOfNothing DEF Part
  <2> HIDE DEF kept, before
  <2>9. Part(earlier, s)  BY <2>7, <2>8
  <2>10. Part(<<s[r]>>, s)
    <3>1. <<s[r]>> \in Seq(Messages) /\ Len(<<s[r]>>) = 1 /\ <<s[r]>>[1] = s[r]  BY <2>2
    <3> QED  BY <3>1, <2>2 DEF Part
  <2> HIDE DEF earlier
  <2> QED  BY <2>1, <2>3, <2>7, <2>9, <2>10, TogetherIsPart
<1> QED  BY <1>3, <1>4

\* A result m of a call that is announced in c.
Known(c, m) ==
  /\ m.of \in 1..Len(c) /\ c[m.of].role = "assistant"
  /\ m.call \in 1..c[m.of].calls

\* What h holds are instructions and copies of what c holds.
Copies(h, c) ==
  \A i \in 1..Len(h) :
    h[i].role = "system" \/ (h[i].at \in 1..Len(c) /\ h[i] = c[h[i].at])

\* A turn sends copies of what is stored, and stores the results of calls that
\* are stored.
Copying(s) ==
  /\ pc[s] \in {"asking", "calling"} => Copies(turn[s].history, stored)
  /\ pc[s] = "calling" =>
       /\ turn[s].announced \in 1..Len(stored)
       /\ stored[turn[s].announced].role = "assistant"
       /\ stored[turn[s].announced].calls = turn[s].calls

CopyInv ==
  /\ \A j \in 1..Len(stored) : stored[j].role = "tool" => Known(stored, stored[j])
  /\ \A s \in Sockets : Copying(s)

LEMMA CopiesOfPart ==
  ASSUME NEW h, NEW c, Copies(h, c), NEW a, Part(a, h)
  PROVE  Copies(a, c)
BY DEF Copies, Part

\* What is stored next is a copy of itself, and what was stored stays.
LEMMA CopiesGoOn ==
  ASSUME NEW h \in Seq(Messages), NEW c \in Seq(Messages), Copies(h, c),
         NEW m \in Messages
  PROVE  /\ Copies(h, Append(c, m))
         /\ m.at = Len(c) + 1 => Copies(Append(h, m), Append(c, m))
         /\ m.role = "system" => Copies(Append(h, m), c)
<1> DEFINE g == Append(h, m)
           d == Append(c, m)
<1>1. /\ Len(d) = Len(c) + 1 /\ d[Len(c) + 1] = m /\ Len(c) \in Nat
      /\ \A x \in 1..Len(c) : d[x] = c[x]
  BY Appended, PositionsAre
<1>2. /\ Len(g) = Len(h) + 1 /\ g[Len(h) + 1] = m /\ Len(h) \in Nat
      /\ \A x \in 1..Len(h) : g[x] = h[x]
  BY Appended, PositionsAre
<1> HIDE DEF g, d
<1>3. \A x \in 1..Len(c) : x \in 1..Len(d)  BY <1>1
<1>4. Copies(h, d)  BY <1>1, <1>3 DEF Copies
<1>5. ASSUME NEW e, Copies(h, e), m.role = "system" \/ (m.at \in 1..Len(e) /\ m = e[m.at])
      PROVE  Copies(g, e)
  <2>1. ASSUME NEW i \in 1..Len(g)
        PROVE  g[i].role = "system" \/ (g[i].at \in 1..Len(e) /\ g[i] = e[g[i].at])
    <3>1. CASE i = Len(h) + 1  BY <3>1, <1>2, <1>5
    <3>2. CASE i # Len(h) + 1
      <4>1. i \in 1..Len(h)  BY <3>2, <1>2
      <4> QED  BY <4>1, <1>2, <1>5 DEF Copies
    <3> QED  BY <3>1, <3>2
  <2> QED  BY <2>1 DEF Copies
<1>6. m.at = Len(c) + 1 => Copies(g, d)
  <2> SUFFICES ASSUME m.at = Len(c) + 1 PROVE Copies(g, d)  OBVIOUS
  <2>1. m.at \in 1..Len(d) /\ m = d[m.at]  BY <1>1
  <2> QED  BY <2>1, <1>4, <1>5
<1>7. m.role = "system" => Copies(g, c)  BY <1>5
<1> QED  BY <1>4, <1>6, <1>7 DEF g, d

\* What a turn begins with are copies.
LEMMA BuildCopies ==
  ASSUME NEW s \in Seq(Messages), Placed(s), NEW n \in 0..Len(s)
  PROVE  Build(s, n) \in Seq(Messages) /\ Copies(Build(s, n), s)
<1> DEFINE a == <<SystemMessage>> \o (IF n > 0 THEN <<SystemMessage>> ELSE << >>)
           o == IF n > 0 THEN 2 ELSE 1
           r == SubSeq(s, n + 1, Len(s))
           c == Build(s, n)
<1>1. SystemMessage \in Messages /\ SystemMessage.role = "system"  BY MessagesAre
<1>2. a \in Seq(Messages) /\ Len(a) = o /\ \A i \in 1..o : a[i].role = "system"
  BY <1>1
<1>3. c = a \o r  BY DEF Build
<1>4. o \in Nat /\ Len(s) \in Nat  BY PositionsAre
<1>5. Part(r, s)
  <2>1. n + 1 \in 1..Len(s) + 1 /\ Len(s) \in 0..Len(s)  BY <1>4
  <2> QED  BY <2>1, CutIsPart
<1> HIDE DEF a, c, o, r
<1>6. r \in Seq(Messages) /\ Len(r) \in Nat  BY <1>5, PositionsAre DEF Part
<1>7. /\ c \in Seq(Messages) /\ Len(c) = o + Len(r)
      /\ \A x \in 1..o + Len(r) : c[x] = IF x <= o THEN a[x] ELSE r[x - o]
  BY <1>2, <1>3, <1>6, Parts
<1>8. ASSUME NEW x \in 1..Len(c)
      PROVE  c[x].role = "system" \/ (c[x].at \in 1..Len(s) /\ c[x] = s[c[x].at])
  <2>1. CASE x <= o
    <3>1. x \in 1..o /\ c[x] = a[x]  BY <2>1, <1>4, <1>6, <1>7
    <3> QED  BY <3>1, <1>2
  <2>2. CASE ~(x <= o)
    <3>1. x - o \in 1..Len(r) /\ c[x] = r[x - o]  BY <2>2, <1>4, <1>6, <1>7
    <3>2. PICK y \in 1..Len(s) : r[x - o] = s[y]  BY <3>1, <1>5 DEF Part
    <3> QED  BY <3>1, <3>2 DEF Placed
  <2> QED  BY <2>1, <2>2
<1> QED  BY <1>7, <1>8 DEF Copies, c

\* What the invariant says of the variables.
LEMMA ChatVariablesAre ==
  ASSUME ChatInv
  PROVE  /\ stored \in Seq(Messages) /\ Len(stored) \in Nat /\ Placed(stored)
         /\ summarised \in 0..Len(stored)
         /\ pc \in [Sockets -> PCs] /\ turn \in [Sockets -> Turns]
         /\ \A s \in Sockets : turn[s].history \in Seq(Messages) /\ TurnInv(s)
<1>1. stored \in Seq(Messages) /\ turn \in [Sockets -> Turns]  BY DEF ChatInv, ChatTypeOK
<1>2. Len(stored) \in Nat  BY <1>1, PositionsAre
<1>3. \A s \in Sockets : turn[s].history \in Seq(Messages)  BY <1>1, TurnsAre
<1> QED  BY <1>1, <1>2, <1>3 DEF ChatInv, ChatTypeOK, PCs

\* The first request of a turn.
LEMMA BeginCopies ==
  ASSUME pc \in [Sockets -> PCs], turn \in [Sockets -> Turns],
         stored' \in Seq(Messages), Placed(stored'),
         NEW s \in Sockets, NEW n \in 0..Len(stored'), NEW q, Begin(s, stored', n, q)
  PROVE  /\ Copying(s)'
         /\ \A t \in Sockets \ {s} : pc'[t] = pc[t] /\ turn'[t] = turn[t]
<1> DEFINE b == Build(stored', n)
           h == Trim(b)
           u == [Idle EXCEPT !.history = h, !.request = q,
                   !.sound = Legal(DropLeadingOrphan(SubSeq(stored', n + 1, Len(stored'))))]
<1>1. pc' = [pc EXCEPT ![s] = "asking"] /\ turn' = [turn EXCEPT ![s] = u]
  BY DEF Begin
<1>2. b \in Seq(Messages) /\ Copies(b, stored')  BY BuildCopies
<1> HIDE DEF b
<1>3. Copies(h, stored')  BY <1>2, TrimIsPart, CopiesOfPart
<1> HIDE DEF h
<1>4. u.history = h  BY DEF Idle
<1> HIDE DEF u
<1>5. /\ pc'[s] = "asking" /\ turn'[s] = u
      /\ \A t \in Sockets \ {s} : pc'[t] = pc[t] /\ turn'[t] = turn[t]
  BY <1>1
<1> QED  BY <1>3, <1>4, <1>5 DEF Copying

\* A step of one socket that stores a message, if it does.
LEMMA CopyStep ==
  ASSUME ChatInv, CopyInv, NEW s \in Sockets,
         \A t \in Sockets \ {s} : pc'[t] = pc[t] /\ turn'[t] = turn[t],
         \/ stored' = stored
         \/ \E m \in Messages : /\ stored' = Append(stored, m) /\ m.at = Len(stored) + 1
                                /\ m.role = "tool" => Known(stored, m),
         Copying(s)'
  PROVE  CopyInv'
<1>1. /\ stored \in Seq(Messages) /\ Len(stored) \in Nat
      /\ \A t \in Sockets : turn[t].history \in Seq(Messages)
  BY ChatVariablesAre
<1>2. CASE stored' = stored
  <2>1. \A t \in Sockets \ {s} : Copying(t)'  BY <1>2 DEF CopyInv, Copying
  <2> QED  BY <1>2, <2>1 DEF CopyInv
<1>3. CASE \E m \in Messages : /\ stored' = Append(stored, m) /\ m.at = Len(stored) + 1
                               /\ m.role = "tool" => Known(stored, m)
  <2>1. PICK m \in Messages : /\ stored' = Append(stored, m) /\ m.at = Len(stored) + 1
                              /\ m.role = "tool" => Known(stored, m)
    BY <1>3
  <2>2. /\ Len(stored') = Len(stored) + 1 /\ stored'[Len(stored) + 1] = m
        /\ \A x \in 1..Len(stored) : stored'[x] = stored[x] /\ x \in 1..Len(stored')
    BY <2>1, <1>1, Appended
  <2>3. ASSUME NEW x, Known(stored, x) PROVE Known(stored', x)
    BY <2>2, <2>3 DEF Known
  <2>4. ASSUME NEW j \in 1..Len(stored'), stored'[j].role = "tool"
        PROVE  Known(stored', stored'[j])
    <3>1. CASE j = Len(stored) + 1  BY <3>1, <2>1, <2>2, <2>3, <2>4
    <3>2. CASE j # Len(stored) + 1
      <4>1. j \in 1..Len(stored) /\ stored'[j] = stored[j]  BY <3>2, <2>2, <1>1
      <4>2. Known(stored, stored[j])  BY <4>1, <2>4 DEF CopyInv
      <4> QED  BY <4>1, <4>2, <2>3
    <3> QED  BY <3>1, <3>2
  <2>5. ASSUME NEW t \in Sockets \ {s} PROVE Copying(t)'
    <3>1. Copying(t)  BY DEF CopyInv
    <3>2. pc[t] \in {"asking", "calling"} => Copies(turn[t].history, stored')
      <4>1. turn[t].history \in Seq(Messages)  BY <1>1
      <4> QED  BY <4>1, <3>1, <2>1, <1>1, CopiesGoOn DEF Copying
    <3>3. pc[t] = "calling" =>
            /\ turn[t].announced \in 1..Len(stored')
            /\ stored'[turn[t].announced].role = "assistant"
            /\ stored'[turn[t].announced].calls = turn[t].calls
      BY <3>1, <2>2 DEF Copying
    <3>4. pc'[t] = pc[t] /\ turn'[t] = turn[t]  OBVIOUS
    <3> QED  BY <3>2, <3>3, <3>4 DEF Copying
  <2> QED  BY <2>4, <2>5 DEF CopyInv
<1> QED  BY <1>2, <1>3

\* A step after which the turn sends nothing and calls nothing.
LEMMA QuietCopies ==
  ASSUME ChatInv, CopyInv, NEW s \in Sockets, UNCHANGED stored,
         \/ Open(s) \/ CompactRequested(s) \/ Leave(s, "idle") \/ Leave(s, "closed")
         \/ pc' = [pc EXCEPT ![s] = "idle"] /\ turn' = [turn EXCEPT ![s] = Idle]
  PROVE  CopyInv'
<1>1. pc \in [Sockets -> PCs] /\ turn \in [Sockets -> Turns]  BY ChatVariablesAre
<1>2. /\ pc'[s] \in {"idle", "folding", "closed"}
      /\ \A t \in Sockets \ {s} : pc'[t] = pc[t] /\ turn'[t] = turn[t]
  BY <1>1 DEF Open, CompactRequested, Summarise, Leave
<1>3. Copying(s)'  BY <1>2 DEF Copying
<1> QED  BY <1>2, <1>3, CopyStep

LEMMA UserMessageCopies ==
  ASSUME ChatInv, CopyInv, ChatInv', NEW s \in Sockets, UserMessageArrives(s)
  PROVE  CopyInv'
<1> DEFINE q == Len(stored) + 1
           m == UserMessage(q)
<1>1. /\ pc \in [Sockets -> PCs] /\ turn \in [Sockets -> Turns]
      /\ stored \in Seq(Messages) /\ Len(stored) \in Nat
  BY ChatVariablesAre
<1>2. m \in Messages /\ m.role = "user" /\ m.at = q
  <2>1. q \in Nat  BY <1>1
  <2> HIDE DEF q
  <2> QED  BY <2>1, MessagesAre
<1> HIDE DEF m
<1>3. Len(Append(stored, m)) = q  BY <1>1, <1>2, Appended
<1>4. /\ stored' = Append(stored, m) /\ summarised' = summarised
      /\ \/ Summarise(s, "compacting", stored', q)
         \/ Begin(s, stored', summarised, q)
  BY <1>3 DEF UserMessageArrives, m
<1>5. stored' \in Seq(Messages) /\ Placed(stored') /\ summarised' \in 0..Len(stored')
  <2>1. ChatTypeOK' /\ Placed(stored)'  BY DEF ChatInv
  <2> QED  BY <2>1 DEF ChatTypeOK
<1>6. /\ Copying(s)'
      /\ \A t \in Sockets \ {s} : pc'[t] = pc[t] /\ turn'[t] = turn[t]
  <2>1. CASE Begin(s, stored', summarised, q)
    BY <2>1, <1>1, <1>4, <1>5, BeginCopies
  <2>2. CASE Summarise(s, "compacting", stored', q)
    <3>1. /\ pc'[s] = "compacting"
          /\ \A t \in Sockets \ {s} : pc'[t] = pc[t] /\ turn'[t] = turn[t]
      BY <2>2, <1>1 DEF Summarise
    <3> QED  BY <3>1 DEF Copying
  <2> QED  BY <2>1, <2>2, <1>4
<1> QED  BY <1>2, <1>4, <1>6, CopyStep

LEMMA FoldedCopies ==
  ASSUME ChatInv, CopyInv, NEW s \in Sockets, Folded(s)
  PROVE  CopyInv'
<1>1. /\ pc \in [Sockets -> PCs] /\ turn \in [Sockets -> Turns] /\ TurnInv(s)
      /\ stored \in Seq(Messages) /\ Len(stored) \in Nat /\ Placed(stored)
  BY ChatVariablesAre
<1>2. stored' = stored  BY DEF Folded
<1>3. CASE pc' = [pc EXCEPT ![s] = "idle"] /\ turn' = [turn EXCEPT ![s] = Idle]
  BY <1>2, <1>3, QuietCopies
<1>4. CASE /\ pc[s] = "compacting"
           /\ \/ Begin(s, stored, turn[s].fold, turn[s].request)
              \/ Begin(s, stored, turn[s].known, turn[s].request)
  <2>1. turn[s].fold \in 0..Len(stored) /\ turn[s].known \in 0..Len(stored)
    <3>1. turn[s].fold \in Nat /\ turn[s].known \in Nat  BY <1>1, TurnsAre
    <3>2. /\ turn[s].request \in 1..Len(stored)
          /\ turn[s].fold < turn[s].request /\ turn[s].known < turn[s].request
      BY <1>1, <1>4 DEF TurnInv, Folds
    <3> QED  BY <3>1, <3>2, <1>1
  <2>2. PICK n \in 0..Len(stored') : Begin(s, stored', n, turn[s].request)
    BY <2>1, <1>2, <1>4
  <2>3. stored' \in Seq(Messages) /\ Placed(stored')  BY <1>1, <1>2
  <2>4. /\ Copying(s)'
        /\ \A t \in Sockets \ {s} : pc'[t] = pc[t] /\ turn'[t] = turn[t]
    BY <2>2, <2>3, <1>1, BeginCopies
  <2> QED  BY <2>4, <1>2, CopyStep
<1> QED  BY <1>3, <1>4 DEF Folded

LEMMA RepliedCopies ==
  ASSUME ChatInv, CopyInv, NEW s \in Sockets, Replied(s)
  PROVE  CopyInv'
<1> DEFINE e == Len(stored) + 1
           T == turn[s]
<1>1. /\ pc \in [Sockets -> PCs] /\ turn \in [Sockets -> Turns] /\ pc[s] = "asking"
      /\ stored \in Seq(Messages) /\ Len(stored) \in Nat /\ e \in Nat
      /\ T \in Turns /\ T.history \in Seq(Messages) /\ Copies(T.history, stored)
  <2>1. /\ pc \in [Sockets -> PCs] /\ turn \in [Sockets -> Turns]
        /\ stored \in Seq(Messages) /\ Len(stored) \in Nat /\ T.history \in Seq(Messages)
    BY ChatVariablesAre
  <2>2. pc[s] = "asking"  BY DEF Replied
  <2>3. Copies(T.history, stored)  BY <2>2 DEF CopyInv, Copying
  <2> QED  BY <2>1, <2>2, <2>3
<1>2. PICK text \in BOOLEAN, n \in 0..CallsPerReply :
        /\ stored' = IF text \/ n > 0 THEN Append(stored, Reply(e, n)) ELSE stored
        /\ IF n = 0 THEN pc' = [pc EXCEPT ![s] = "idle"] /\ turn' = [turn EXCEPT ![s] = Idle]
           ELSE /\ pc' = [pc EXCEPT ![s] = "calling"]
                /\ turn' = [turn EXCEPT ![s] = [T EXCEPT
                     !.history = Append(@, Reply(e, n)), !.announced = Reply(e, n).at,
                     !.calls = n, !.next = 1]]
  BY DEF Replied
<1> DEFINE m == Reply(e, n)
<1>3. n \in Nat /\ m \in Messages /\ m.role = "assistant" /\ m.at = e /\ m.calls = n
  <2>1. n \in Nat  BY BoundsAre
  <2> HIDE DEF e
  <2> QED  BY <2>1, <1>1, MessagesAre
<1> HIDE DEF m
<1>4. stored' = stored \/ \E x \in Messages : /\ stored' = Append(stored, x)
                                              /\ x.at = Len(stored) + 1
                                              /\ x.role = "tool" => Known(stored, x)
  BY <1>2, <1>3 DEF m
<1>5. /\ Copying(s)'
      /\ \A t \in Sockets \ {s} : pc'[t] = pc[t] /\ turn'[t] = turn[t]
  <2>1. CASE n = 0
    <3>1. /\ pc'[s] = "idle"
          /\ \A t \in Sockets \ {s} : pc'[t] = pc[t] /\ turn'[t] = turn[t]
      BY <2>1, <1>1, <1>2
    <3> QED  BY <3>1 DEF Copying
  <2>2. CASE n # 0
    <3> DEFINE h == Append(T.history, m)
               u == [T EXCEPT !.history = h, !.announced = m.at, !.calls = n, !.next = 1]
    <3>1. /\ stored' = Append(stored, m) /\ pc' = [pc EXCEPT ![s] = "calling"]
          /\ turn' = [turn EXCEPT ![s] = u]
      <4>1. n > 0  BY <1>3, <2>2
      <4>2. /\ pc' = [pc EXCEPT ![s] = "calling"]
            /\ turn' = [turn EXCEPT ![s] = u]
        BY <1>2, <2>2 DEF m
      <4> QED  BY <4>1, <4>2, <1>2 DEF m
    <3>2. Copies(h, stored')  BY <3>1, <1>1, <1>3, CopiesGoOn
    <3>3. u.history = h /\ u.announced = e /\ u.calls = n
      <4>1. T \in Turns /\ m.at = e  BY <1>1, <1>3
      <4> HIDE DEF T, e, h
      <4> QED  BY <4>1 DEF Turns
    <3> HIDE DEF u, h
    <3>4. e \in 1..Len(stored') /\ stored'[e] = m
      BY <3>1, <1>1, <1>3, Appended
    <3>5. /\ pc'[s] = "calling" /\ turn'[s] = u
          /\ \A t \in Sockets \ {s} : pc'[t] = pc[t] /\ turn'[t] = turn[t]
      BY <3>1, <1>1
    <3> HIDE DEF e
    <3> QED  BY <3>2, <3>3, <3>4, <3>5, <1>3 DEF Copying
  <2> QED  BY <2>1, <2>2
<1> QED  BY <1>4, <1>5, CopyStep

LEMMA AnswerCopies ==
  ASSUME ChatInv, CopyInv, NEW s \in Sockets, pc[s] = "calling", Answer(s)
  PROVE  CopyInv'
<1> DEFINE T == turn[s]
           e == Len(stored) + 1
           m == ToolResult(e, T.announced, T.next)
           h == Append(T.history, m)
           u == [T EXCEPT !.made = @ + 1, !.next = @ + 1, !.history = h]
<1>1. /\ pc \in [Sockets -> PCs] /\ turn \in [Sockets -> Turns]
      /\ stored \in Seq(Messages) /\ Len(stored) \in Nat /\ e \in Nat
      /\ T \in Turns /\ T.history \in Seq(Messages) /\ Copies(T.history, stored)
      /\ T.next \in 1..T.calls /\ T.announced \in 1..Len(stored)
      /\ stored[T.announced].role = "assistant" /\ stored[T.announced].calls = T.calls
  <2>1. /\ pc \in [Sockets -> PCs] /\ turn \in [Sockets -> Turns] /\ TurnInv(s)
        /\ stored \in Seq(Messages) /\ Len(stored) \in Nat /\ T.history \in Seq(Messages)
    BY ChatVariablesAre
  <2>2. Copying(s)  BY DEF CopyInv
  <2>3. T.next \in 1..T.calls  BY <2>1 DEF TurnInv, Sends
  <2> QED  BY <2>1, <2>2, <2>3 DEF Copying
<1>2. m \in Messages /\ m.role = "tool" /\ m.at = e /\ Known(stored, m)
  <2>1. T.announced \in Nat /\ T.next \in Nat  BY <1>1, TurnsAre
  <2>2. /\ m \in Messages /\ m.role = "tool" /\ m.at = e
        /\ m.of = T.announced /\ m.call = T.next
    <3> HIDE DEF T, e
    <3> QED  BY <2>1, <1>1 DEF ToolResult, SystemMessage, Messages, Roles
  <2> HIDE DEF T, m
  <2> QED  BY <2>2, <1>1 DEF Known
<1> HIDE DEF m
<1>3. /\ stored' = Append(stored, m)
      /\ \/ turn' = [turn EXCEPT ![s] = u] /\ pc' = pc
         \/ turn' = [turn EXCEPT ![s] = NextRound(u)] /\ pc' = [pc EXCEPT ![s] = "asking"]
         \/ turn' = [turn EXCEPT ![s] = Idle] /\ pc' = [pc EXCEPT ![s] = "idle"]
  BY DEF Answer, m
<1>4. h \in Seq(Messages) /\ Copies(h, stored')
  <2>1. h \in Seq(Messages)  BY <1>1, <1>2, Appended
  <2>2. Copies(h, stored')  BY <1>1, <1>2, <1>3, CopiesGoOn
  <2> QED  BY <2>1, <2>2
<1> HIDE DEF h
<1>5. /\ u \in Turns /\ u.history = h /\ u.announced = T.announced /\ u.calls = T.calls
  <2> DEFINE j == T.made + 1
             k == T.next + 1
  <2>1. /\ h \in Seq(Messages) /\ j \in Nat /\ k \in Nat /\ T \in Turns
        /\ u = [T EXCEPT !.made = j, !.next = k, !.history = h]
    <3>1. T \in Turns  BY <1>1
    <3>2. T.made \in Nat /\ T.next \in Nat
      <4> HIDE DEF T
      <4> QED  BY <3>1, TurnsAre
    <3> QED  BY <3>1, <3>2, <1>4
  <2> HIDE DEF j, k, T, u
  <2> QED  BY ONLY <2>1 DEF Turns
<1> HIDE DEF u
<1>6. /\ Len(stored') = Len(stored) + 1
      /\ \A x \in 1..Len(stored) : stored'[x] = stored[x] /\ x \in 1..Len(stored')
  BY <1>1, <1>2, <1>3, Appended
<1>7. CASE turn' = [turn EXCEPT ![s] = u] /\ pc' = pc
  <2>1. /\ pc'[s] = "calling" /\ turn'[s] = u
        /\ \A t \in Sockets \ {s} : pc'[t] = pc[t] /\ turn'[t] = turn[t]
    BY <1>1, <1>7
  <2>2. /\ u.announced \in 1..Len(stored') /\ stored'[u.announced].role = "assistant"
        /\ stored'[u.announced].calls = u.calls
    <3> HIDE DEF T
    <3> QED  BY <1>1, <1>5, <1>6
  <2>3. Copying(s)'  BY <2>1, <2>2, <1>4, <1>5 DEF Copying
  <2> QED  BY <2>1, <2>3, <1>2, <1>3, CopyStep
<1>8. CASE turn' = [turn EXCEPT ![s] = NextRound(u)] /\ pc' = [pc EXCEPT ![s] = "asking"]
  <2> DEFINE g == IF u.round + 1 = MaxRounds THEN Append(u.history, SystemMessage) ELSE u.history
             n == NextRound(u)
  <2>1. g \in Seq(Messages) /\ Copies(g, stored')
    <3>1. SystemMessage \in Messages /\ SystemMessage.role = "system"  BY MessagesAre
    <3>2. stored' \in Seq(Messages)  BY <1>1, <1>2, <1>3, Appended
    <3>3. /\ Append(h, SystemMessage) \in Seq(Messages)
          /\ Copies(Append(h, SystemMessage), stored')
      BY <3>1, <3>2, <1>4, Appended, CopiesGoOn
    <3> QED  BY <3>3, <1>4, <1>5
  <2>2. n.history = Trim(g)
    <3>1. n = [u EXCEPT !.round = @ + 1, !.history = Trim(g)]  BY DEF NextRound
    <3> HIDE DEF n, g
    <3>2. u \in Turns  BY <1>5
    <3> QED  BY <3>1, <3>2 DEF Turns
  <2> HIDE DEF g, n
  <2>3. Copies(n.history, stored')  BY <2>1, <2>2, TrimIsPart, CopiesOfPart
  <2>4. /\ pc'[s] = "asking" /\ turn'[s] = n
        /\ \A t \in Sockets \ {s} : pc'[t] = pc[t] /\ turn'[t] = turn[t]
    BY <1>1, <1>8 DEF n
  <2>5. Copying(s)'  BY <2>3, <2>4 DEF Copying
  <2> QED  BY <2>4, <2>5, <1>2, <1>3, CopyStep
<1>9. CASE turn' = [turn EXCEPT ![s] = Idle] /\ pc' = [pc EXCEPT ![s] = "idle"]
  <2>1. /\ pc'[s] = "idle"
        /\ \A t \in Sockets \ {s} : pc'[t] = pc[t] /\ turn'[t] = turn[t]
    BY <1>1, <1>9
  <2>2. Copying(s)'  BY <2>1 DEF Copying
  <2> QED  BY <2>1, <2>2, <1>2, <1>3, CopyStep
<1> QED  BY <1>3, <1>7, <1>8, <1>9

\* Every step keeps it.
LEMMA CopyKeeps ==
  ASSUME ChatInv, CopyInv, ChatInv', [ChatNext]_chatVars
  PROVE  CopyInv'
<1>1. CASE UNCHANGED chatVars
  BY <1>1 DEF chatVars, CopyInv, Copying
<1>2. CASE ChatNext
  <2>1. PICK s \in Sockets :
          Open(s) \/ UserMessageArrives(s) \/ CompactRequested(s) \/ Turn(s) \/ CutOff(s)
    BY <1>2 DEF ChatNext
  <2>2. CASE Open(s)
    <3>1. UNCHANGED stored  BY <2>2 DEF Open
    <3> QED  BY <2>2, <3>1, QuietCopies
  <2>3. CASE CompactRequested(s)
    <3>1. UNCHANGED stored  BY <2>3 DEF CompactRequested
    <3> QED  BY <2>3, <3>1, QuietCopies
  <2>4. CASE CutOff(s)
    <3>1. UNCHANGED stored /\ (Leave(s, "idle") \/ Leave(s, "closed"))  BY <2>4 DEF CutOff
    <3> QED  BY <3>1, QuietCopies
  <2>5. CASE Called(s)
    <3>1. \/ UNCHANGED stored /\ (Leave(s, "idle") \/ Leave(s, "closed"))
          \/ pc[s] = "calling" /\ Answer(s)
      BY <2>5 DEF Called
    <3> QED  BY <3>1, QuietCopies, AnswerCopies
  <2> QED  BY <2>1, <2>2, <2>3, <2>4, <2>5, UserMessageCopies, FoldedCopies, RepliedCopies
           DEF Turn
<1> QED  BY <1>1, <1>2

\* What is sent are copies of what is stored, and every stored result is that
\* of a call its announcement made (AssistantChatService._replay).
THEOREM CopiesInvariance == ChatSpec => []CopyInv
<1>1. ChatInit => CopyInv
  <2> SUFFICES ASSUME ChatInit PROVE CopyInv  OBVIOUS
  <2>1. stored = << >> /\ pc = [s \in Sockets |-> "closed"]  BY DEF ChatInit
  <2>2. Len(stored) = 0  BY <2>1, CostOfNothing
  <2> QED  BY <2>1, <2>2 DEF CopyInv, Copying
<1>2. CopyInv /\ ChatInv /\ ChatInv' /\ [ChatNext]_chatVars => CopyInv'  BY CopyKeeps
<1> QED  BY <1>1, <1>2, ChatInvariance, PTL DEF ChatSpec

\* The results of an excerpt are numbered if those that are stored are.
LEMMA ExcerptIsNumbered ==
  ASSUME NEW c \in Seq(Messages), Placed(c), NEW f \in Nat, f <= Len(c),
         \A j \in 1..Len(c) : c[j].role = "tool" => Known(c, c[j]),
         NEW h, NEW p, NEW o, NEW d, Excerpt(h, c, f, p, o, d)
  PROVE  Numbered(h)
<1>1. /\ \A i \in 1..Len(h) : h[i].role \notin {"system", "user"} => i - p \in 1..d
      /\ \A x \in 1..d : /\ o + x \in 1..Len(c) /\ h[p + x] = c[o + x]
                         /\ h[p + x].at = o + x
      /\ Len(h) \in Nat /\ p \in Nat
  BY ExcerptIs
<1>2. ASSUME NEW i \in 1..Len(h), h[i].role \notin {"system", "user"}
      PROVE  h[i].at \in 1..Len(c) /\ h[i] = c[h[i].at]
  <2> DEFINE x == i - p
  <2>1. x \in 1..d /\ p + x = i  BY <1>1, <1>2
  <2> HIDE DEF x
  <2>2. o + x \in 1..Len(c) /\ h[p + x] = c[o + x] /\ h[p + x].at = o + x  BY <1>1, <2>1
  <2> QED  BY <2>1, <2>2
<1> SUFFICES ASSUME NEW i \in 1..Len(h), NEW j \in 1..Len(h),
                    h[i].role = "assistant", h[j].role = "tool", h[j].of = h[i].at
             PROVE  h[j].call \in 1..h[i].calls
  BY DEF Numbered
<1>3. h[i] = c[h[i].at]  BY <1>2
<1>4. Known(c, h[j])  BY <1>2
<1> QED  BY <1>3, <1>4 DEF Known

\* Where an excerpt is cut, the turn of results that follows the announcement
\* lacks its last one.
LEMMA CutBlocksAre ==
  ASSUME NEW c \in Seq(Messages), Placed(c), NEW f \in Nat, f <= Len(c), Kept(c, f),
         NEW h, NEW p, NEW o, NEW d, Excerpt(h, c, f, p, o, d), Cut(h, f)
  PROVE  ~LegalBlocks(Spoken(h))
<1> DEFINE D == Said(h)
           S == Spoken(h)
<1>1. /\ p \in Nat /\ o \in Nat /\ d \in Nat /\ o + d = f /\ Len(h) = p + d + 1
      /\ h \in Seq(Messages) /\ DOMAIN h = 1..Len(h)
      /\ \A i \in 1..Len(h) : h[i].role \notin {"system", "user"} => i - p \in 1..d
      /\ \A y \in 1..d : /\ p + y \in 1..Len(h) /\ o + y \in 1..f
                         /\ h[p + y] = c[o + y] /\ h[p + y].at = o + y
                         /\ h[p + y].calls \in Nat /\ h[p + y].role # "system"
      /\ h[p + d + 1].role = "user"
  BY ExcerptIs
<1>2. PICK i \in 1..Len(h) : h[i].role = "assistant" /\ h[i].at + h[i].calls > f
  BY <1>1 DEF Cut
<1> DEFINE x == i - p
           n == h[i].calls
           e == d + 1 - x
<1>3. /\ x \in 1..d /\ p + x = i /\ n \in Nat /\ e \in 1..n /\ i + e = p + d + 1
      /\ x + e = d + 1
  <2>1. x \in 1..d /\ p + x = i  BY <1>1, <1>2
  <2> HIDE DEF x
  <2>2. n \in Nat /\ h[i].at = o + x /\ o + x + n > f  BY <2>1, <1>1, <1>2
  <2> HIDE DEF n
  <2>3. o \in Nat /\ d \in Nat /\ p \in Nat /\ o + d = f  BY <1>1
  <2>4. e \in 1..n /\ i + e = p + d + 1 /\ x + e = d + 1  BY <2>1, <2>2, <2>3
  <2> QED  BY <2>1, <2>2, <2>4
<1> HIDE DEF x, e
<1>4. /\ h[i] = c[o + x] /\ \A k \in 1..n : c[o + x + k].call = k
  <2>1. h[i] = c[o + x] /\ o + x \in 1..f  BY <1>1, <1>3
  <2>2. Answered(c, o + x)  BY <2>1, <1>2 DEF Kept
  <2> QED  BY <2>1, <2>2 DEF Answered
<1> HIDE DEF n
<1>5. ASSUME NEW z \in 0..e
      PROVE  /\ i + z \in 1..Len(h) /\ h[i + z].role # "system"
             /\ z # 0 /\ z # e => h[i + z].call = z
             /\ z = e => h[i + z].role = "user"
  <2>1. i + z \in 1..Len(h)  BY <1>1, <1>3
  <2>2. CASE z = e  BY <2>1, <2>2, <1>1, <1>3
  <2>3. CASE z # e
    <3>1. /\ x + z \in 1..d /\ p + (x + z) = i + z /\ o + (x + z) = o + x + z
          /\ z # 0 => z \in 1..n
      BY <2>3, <1>1, <1>3
    <3>2. h[p + (x + z)] = c[o + (x + z)] /\ h[p + (x + z)].role # "system"  BY <3>1, <1>1
    <3> QED  BY <2>1, <2>3, <3>1, <3>2, <1>4
  <2> QED  BY <2>2, <2>3
<1>6. /\ DOMAIN S = 1..Len(S) /\ Len(S) \in Nat
      /\ \A y \in D : /\ y \in 1..Len(h) /\ Rank(D, y) \in 1..Len(S)
                      /\ S[Rank(D, y)] = h[y]
  BY <1>1, SpokenIs
<1>7. /\ Len(h) \in Nat /\ \A y \in D : y \in 1..Len(h)
      /\ \A y \in 1..Len(h) : h[y].role # "system" => y \in D
  BY <1>1, PositionsAre DEF Said
<1> HIDE DEF D, S
<1> DEFINE k == Rank(D, i)
<1>8. ASSUME NEW z \in 0..e PROVE k + z \in 1..Len(S) /\ S[k + z] = h[i + z]
  <2>1. ASSUME NEW y \in (i + 1)..(i + z) PROVE y \in D
    <3>1. y - i \in 0..e /\ i + (y - i) = y  BY <1>3
    <3> QED  BY <3>1, <1>5, <1>7
  <2>2. (i + 1)..(i + z) \subseteq D /\ z \in Nat  BY <2>1, <1>3
  <2>3. i \in D  BY <1>2, <1>7
  <2>4. i + z \in D  BY <1>5, <1>7
  <2>5. Rank(D, i + z) = k + z
    <3>1. Len(h) \in Nat  BY <1>7
    <3>2. \A y \in D : y \in 1..Len(h)  BY <1>7
    <3>3. z \in Nat  BY <2>2
    <3>4. (i + 1)..(i + z) \subseteq D  BY <2>2
    <3>5. \A a \in D, b \in Nat : (a + 1)..(a + b) \subseteq D => Rank(D, a + b) = Rank(D, a) + b
      BY ONLY <3>1, <3>2, RankOfRun
    <3> QED  BY <2>3, <3>3, <3>4, <3>5
  <2> QED  BY <1>6, <2>4, <2>5
<1>9. k \in 1..Len(S) /\ S[k] = h[i] /\ k \in Nat
  <2>1. i \in D  BY <1>2, <1>7
  <2> QED  BY <1>6, <2>1
<1> HIDE DEF k
<1> SUFFICES ASSUME LegalBlocks(S) PROVE FALSE  BY DEF S
<1>10. {S[j].call : j \in TurnOf(S, k + 1)} = 1..n /\ S[k + 1].role = "tool"
  <2>1. S[k].role = "assistant" /\ S[k].calls = n /\ n > 0  BY <1>2, <1>3, <1>9 DEF n
  <2> QED  BY <2>1, <1>6, <1>9 DEF LegalBlocks
<1>11. PICK j \in TurnOf(S, k + 1) : S[j].call = n
  <2>1. n \in 1..n  BY <1>3
  <2> QED  BY <1>10, <2>1
<1>12. j \in (k + 1)..Len(S) /\ \A y \in (k + 1 + 1)..j : y \notin Heads(S)
  BY DEF TurnOf
<1> DEFINE z == j - k
<1>13. CASE z < e
  <2>1. z \in 0..e /\ z # 0 /\ z # e /\ k + z = j /\ z < n  BY <1>3, <1>6, <1>9, <1>12, <1>13
  <2> HIDE DEF z
  <2>2. S[j] = h[i + z] /\ h[i + z].call = z  BY <2>1, <1>5, <1>8
  <2> QED  BY <2>1, <2>2, <1>3, <1>11
<1>14. CASE ~(z < e)
  <2>1. e \in 0..e /\ k + e \in (k + 1)..j /\ k + e \in 1..Len(S)
    BY <1>3, <1>6, <1>9, <1>12, <1>14
  <2>2. S[k + e].role = "user"  BY <2>1, <1>5, <1>8
  <2>3. k + e # k + 1  BY <2>2, <1>10
  <2>4. k + e \in (k + 1 + 1)..j  BY <2>1, <2>3, <1>3, <1>9
  <2>5. k + e \in Heads(S)  BY <2>1, <2>2, <1>6 DEF Heads
  <2> QED  BY <2>4, <2>5, <1>12
<1> QED  BY <1>13, <1>14

\* Every window of a sound conversation that a turn sends is legal once it is
\* translated for Anthropic, where all results of a turn's calls must be in the
\* one block that follows it (anthropic_client.py, _to_anthropic_messages); a
\* request for a summary just when no announcement is divided.
THEOREM BlocksAlwaysLegal == ChatSpec => []BlocksAreLegal
<1>1. ASSUME ChatInv, CopyInv, NEW s \in Sockets, pc[s] = "asking", turn[s].sound
      PROVE  LegalBlocks(Spoken(turn[s].history))
  <2> DEFINE h == turn[s].history
  <2>1. h \in Seq(Messages) /\ Legal(h) /\ Copies(h, stored) /\ stored \in Seq(Messages)
    <3>1. TurnInv(s) /\ h \in Seq(Messages) /\ stored \in Seq(Messages)
      BY <1>1, ChatVariablesAre
    <3>2. Legal(h)  BY <3>1, <1>1 DEF TurnInv, Sends
    <3>3. Copies(h, stored)  BY <1>1 DEF CopyInv, Copying
    <3> QED  BY <3>1, <3>2, <3>3
  <2> HIDE DEF h
  <2>2. Numbered(h)
    <3> SUFFICES ASSUME NEW i \in 1..Len(h), NEW j \in 1..Len(h),
                        h[i].role = "assistant", h[j].role = "tool", h[j].of = h[i].at
                 PROVE  h[j].call \in 1..h[i].calls
      BY DEF Numbered
    <3>1. h[i] = stored[h[i].at]  BY <2>1 DEF Copies
    <3>2. h[j].at \in 1..Len(stored) /\ h[j] = stored[h[j].at]  BY <2>1 DEF Copies
    <3>3. Known(stored, h[j])  BY <3>2, <1>1 DEF CopyInv
    <3> QED  BY <3>1, <3>3 DEF Known
  <2>3. LegalBlocks(Spoken(h))  BY <2>1, <2>2, BlocksAre
  <2> QED  BY <2>3 DEF h
<1>2. ASSUME ChatInv, CopyInv, NEW s \in Sockets, pc[s] \in Folding, turn[s].sound
      PROVE  LegalBlocks(Spoken(turn[s].history)) <=> ~Divided(turn[s])
  <2> DEFINE h == turn[s].history
             f == turn[s].fold
  <2>1. /\ stored \in Seq(Messages) /\ Placed(stored) /\ AsksSummary(turn[s], stored)
        /\ f \in Nat /\ f <= Len(stored) /\ (Divided(turn[s]) <=> Cut(h, f))
    BY <1>2, FoldingAsks
  <2>2. Excerpted(h, stored, f) /\ Kept(stored, f)  BY <2>1, <1>2 DEF AsksSummary
  <2> HIDE DEF h, f
  <2>3. PICK p, o, d : Excerpt(h, stored, f, p, o, d)  BY <2>2 DEF Excerpted
  <2>4. Legal(h) <=> ~Cut(h, f)  BY <2>1, <2>2, <2>3, ExcerptIsLegal
  <2>5. Numbered(h)
    <3>1. \A j \in 1..Len(stored) : stored[j].role = "tool" => Known(stored, stored[j])
      BY <1>2 DEF CopyInv
    <3> QED  BY <2>1, <2>3, <3>1, ExcerptIsNumbered
  <2>6. h \in Seq(Messages)  BY <2>3 DEF Excerpt
  <2>7. ~Cut(h, f) => LegalBlocks(Spoken(h))  BY <2>4, <2>5, <2>6, BlocksAre
  <2>8. Cut(h, f) => ~LegalBlocks(Spoken(h))  BY <2>1, <2>2, <2>3, CutBlocksAre
  <2>9. LegalBlocks(Spoken(h)) <=> ~Cut(h, f)  BY <2>7, <2>8
  <2> QED  BY <2>1, <2>9 DEF h, f
<1>3. ChatInv /\ CopyInv => BlocksAreLegal  BY <1>1, <1>2 DEF BlocksAreLegal, KeepsTo
<1> QED  BY <1>3, ChatInvariance, CopiesInvariance, PTL

-----------------------------------------------------------------------------
(* The allowance of automatic applies.                                     *)

AutoShape ==
  /\ mode \in {"auto", "confirm"} /\ lock \in Requesters \cup {Nobody}
  /\ at \in [Requesters -> {"idle", "checking", "plain", "pushing", "counting"}]
  /\ count \in Nat /\ applies \in Nat /\ seen \in [Requesters -> Nat]
  /\ alone \in [Requesters -> BOOLEAN] /\ escaped \in Nat /\ requests \in Nat

\* Who has asked and has no answer yet has the row locked, and nobody else has.
Locked == \A r \in Requesters : at[r] \in {"checking", "plain"} <=> lock = r

\* A request that is about to queue knows the count.  If it was let in alone
\* nobody else has yet to count, and of those that have one at most was.
Alone ==
  /\ \A r \in Requesters : at[r] = "checking" =>
       seen[r] = count /\ (alone[r] => Pending = {})
  /\ \A r, s \in Pending : alone[r] /\ alone[s] => r = s

\* The applies there will be once the one request that was let in alone and has
\* passed the check has queued its own: no more than are allowed, or counted, or
\* will be counted by whoever has yet to count.
Coming == {r \in Pending : alone[r] /\ at[r] = "pushing"}
Due    == IF Coming = {} THEN applies ELSE applies + 1

Counted ==
  /\ Due <= Allowance + escaped
  /\ Due <= count + escaped + (IF \E r \in Pending : alone[r] THEN 1 ELSE 0)
  /\ \A r \in Pending : Due <= seen[r] + 1 + escaped

AllowanceInv == AutoShape /\ Locked /\ Alone /\ Counted

\* The three bounds of Counted, as numbers
LEMMA DueIsNat == ASSUME AllowanceInv PROVE Due \in Nat /\ (Coming # {} => Due = applies + 1)
BY DEF AllowanceInv, AutoShape, Due

\* A step that changes neither who has yet to count nor any number keeps the
\* bounds.
LEMMA NothingQueued ==
  ASSUME AllowanceInv, Pending' = Pending, Coming' = Coming,
         \A r \in Pending : alone'[r] = alone[r] /\ seen'[r] = seen[r],
         UNCHANGED <<count, applies, escaped>>
  PROVE  Counted'
<1>1. Due' = Due  BY DEF Due
<1>2. (\E r \in Pending' : alone'[r]) <=> \E r \in Pending : alone[r]  OBVIOUS
<1> QED  BY <1>1, <1>2 DEF AllowanceInv, Counted

\* What changes when a request no longer has to count
LEMMA Leaves ==
  ASSUME AllowanceInv, NEW r \in Pending, at' = [at EXCEPT ![r] = "idle"], UNCHANGED alone
  PROVE  /\ Pending' = Pending \ {r}
         /\ alone[r] => /\ Coming' = {} /\ ~\E p \in Pending' : alone'[p]
                        /\ at[r] = "pushing" => Coming # {}
                        /\ at[r] = "counting" => Coming = {}
         /\ ~alone[r] => /\ Coming' = Coming
                         /\ (\E p \in Pending' : alone'[p]) <=> \E p \in Pending : alone[p]
<1>1. Pending' = Pending \ {r}  BY DEF AllowanceInv, AutoShape, Pending
<1>2. Coming' = Coming \ {r}  BY <1>1 DEF AllowanceInv, AutoShape, Coming, Pending
<1>3. ASSUME alone[r] PROVE \A p \in Pending : alone[p] => p = r
  BY <1>3 DEF AllowanceInv, Alone
<1>4. ASSUME alone[r]
      PROVE  /\ Coming' = {} /\ ~\E p \in Pending' : alone'[p]
             /\ at[r] = "pushing" => Coming # {}
             /\ at[r] = "counting" => Coming = {}
  BY <1>1, <1>2, <1>3, <1>4 DEF Coming, Pending
<1>5. ASSUME ~alone[r]
      PROVE  /\ Coming' = Coming
             /\ (\E p \in Pending' : alone'[p]) <=> \E p \in Pending : alone[p]
  BY <1>1, <1>2, <1>5 DEF Coming
<1> QED  BY <1>1, <1>4, <1>5

\* Whoever no longer has to count leaves what is known of the others.
LEMMA LeavingIsAlone ==
  ASSUME AllowanceInv, NEW r \in Pending, at' = [at EXCEPT ![r] = "idle"],
         UNCHANGED <<alone, seen>>, count' = count \/ lock = Nobody
  PROVE  Alone'
<1>1. Pending' = Pending \ {r}  BY Leaves
<1>2. \A s \in Requesters : at'[s] = "checking" => at[s] = "checking" /\ lock = s
  BY DEF AllowanceInv, AutoShape, Locked
<1> QED  BY <1>1, <1>2, NobodyAsks DEF AllowanceInv, Alone

\* A request that asks reads the count under the lock.
LEMMA AskKeeps == ASSUME AllowanceInv, NEW r \in Requesters, Ask(r) PROVE AllowanceInv'
<1>1. AutoShape'  BY DEF AllowanceInv, AutoShape, Ask
<1>2. Locked'  BY NobodyAsks DEF AllowanceInv, AutoShape, Locked, Ask
<1>3. /\ Pending' = Pending /\ r \notin Pending
      /\ \A s \in Requesters \ {r} : alone'[s] = alone[s] /\ seen'[s] = seen[s] /\ at'[s] = at[s]
      /\ alone'[r] = (Pending = {}) /\ seen'[r] = count /\ at'[r] \in {"checking", "plain"}
  BY DEF AllowanceInv, AutoShape, Pending, Ask
<1>4. Coming' = Coming  BY <1>3 DEF Coming, Pending
<1>5. Alone'
  <2>1. \A s \in Requesters \ {r} : at'[s] # "checking"
    BY <1>3, NobodyAsks DEF AllowanceInv, Locked, Ask
  <2>2. count' = count  BY DEF Ask
  <2> QED  BY <1>3, <2>1, <2>2 DEF AllowanceInv, Alone, Pending
<1>6. Counted'
  <2>1. \A s \in Pending : alone'[s] = alone[s] /\ seen'[s] = seen[s]  BY <1>3 DEF Pending
  <2> QED  BY <1>3, <1>4, <2>1, NothingQueued DEF Ask
<1> QED  BY <1>1, <1>2, <1>5, <1>6 DEF AllowanceInv

\* A request that is refused lets the row go, and queues nothing.
LEMMA RefuseKeeps == ASSUME AllowanceInv, NEW r \in Requesters, Refuse(r) PROVE AllowanceInv'
<1>1. AutoShape'  BY DEF AllowanceInv, AutoShape, Refuse
<1>2. Locked'  BY NobodyAsks DEF AllowanceInv, AutoShape, Locked, Refuse
<1>3. at' = [at EXCEPT ![r] = "idle"] /\ UNCHANGED <<count, seen, applies, alone, escaped>>
  BY DEF Refuse
<1>4. CASE at[r] \in {"checking", "plain"}
  <2>1. Pending' = Pending  BY <1>3, <1>4 DEF AllowanceInv, AutoShape, Pending
  <2>2. Coming' = Coming  BY <1>3, <1>4, <2>1 DEF AllowanceInv, AutoShape, Coming, Pending
  <2>3. Alone'  BY <1>3, <2>1 DEF AllowanceInv, AutoShape, Alone
  <2> QED  BY <1>1, <1>2, <1>3, <2>1, <2>2, <2>3, NothingQueued DEF AllowanceInv
<1>5. CASE at[r] = "pushing"
  <2>1. r \in Pending  BY <1>5 DEF Pending
  <2>2. Alone'  BY <1>3, <2>1, LeavingIsAlone
  <2>3. Counted'
    <3>1. CASE alone[r]
      <4>1. Due' = applies /\ Due = applies + 1  BY <1>3, <1>5, <2>1, <3>1, Leaves DEF Due
      <4> QED  BY <1>3, <2>1, <3>1, <4>1, Leaves, AllowanceAssumption
               DEF AllowanceInv, AutoShape, Counted, Pending
    <3>2. CASE ~alone[r]
      <4>1. Due' = Due  BY <1>3, <2>1, <3>2, Leaves DEF Due
      <4> QED  BY <1>3, <2>1, <3>2, <4>1, Leaves DEF AllowanceInv, Counted
    <3> QED  BY <3>1, <3>2
  <2> QED  BY <1>1, <1>2, <2>2, <2>3 DEF AllowanceInv
<1> QED  BY <1>4, <1>5 DEF Refuse

\* The commit of the job lets the row go before the apply is queued or counted.
LEMMA EnqueueKeeps == ASSUME AllowanceInv, NEW r \in Requesters, Enqueue(r) PROVE AllowanceInv'
<1>1. AutoShape'  BY DEF AllowanceInv, AutoShape, Enqueue
<1>2. Locked'  BY NobodyAsks DEF AllowanceInv, AutoShape, Locked, Enqueue
<1>3. lock = r /\ UNCHANGED <<count, seen, applies, alone, escaped>>
  BY DEF AllowanceInv, Locked, Enqueue
<1>4. \A s \in Requesters : at'[s] # "checking"
  BY <1>3, NobodyAsks DEF AllowanceInv, AutoShape, Locked, Enqueue
<1>5. CASE at[r] = "plain"
  <2>1. at' = [at EXCEPT ![r] = "idle"]  BY <1>5 DEF Enqueue
  <2>2. Pending' = Pending  BY <1>5, <2>1 DEF AllowanceInv, AutoShape, Pending
  <2>3. Coming' = Coming  BY <1>3, <1>5, <2>1, <2>2 DEF AllowanceInv, AutoShape, Coming, Pending
  <2>4. Alone'  BY <1>3, <1>4, <2>2 DEF AllowanceInv, Alone
  <2> QED  BY <1>1, <1>2, <1>3, <2>2, <2>3, <2>4, NothingQueued DEF AllowanceInv
<1>6. CASE at[r] = "checking"
  <2>1. seen[r] < Allowance /\ at' = [at EXCEPT ![r] = "pushing"] /\ seen[r] = count
    BY <1>6 DEF Enqueue, AllowanceInv, Alone
  <2>2. Pending' = Pending \cup {r} /\ r \notin Pending
    BY <1>6, <2>1 DEF AllowanceInv, AutoShape, Pending
  <2>3. Coming' = IF alone[r] THEN Coming \cup {r} ELSE Coming
    BY <1>3, <1>6, <2>1, <2>2 DEF AllowanceInv, AutoShape, Coming, Pending
  <2>4. alone[r] => Pending = {} /\ Coming = {}  BY <1>6 DEF AllowanceInv, Alone, Coming
  <2>5. Alone'  BY <1>3, <1>4, <2>2, <2>4 DEF AllowanceInv, Alone
  <2>6. Counted'
    <3>1. CASE alone[r]
      <4>1. Due = applies /\ Due' = applies + 1 /\ Pending = {}
        BY <1>3, <2>3, <2>4, <3>1 DEF Due
      <4>2. applies <= count + escaped  BY <4>1 DEF AllowanceInv, AutoShape, Counted
      <4>3. Pending' = {r} /\ \E p \in Pending' : alone'[p]  BY <1>3, <2>2, <3>1, <4>1
      <4>4. Due' <= Allowance' + escaped' /\ Due' <= seen'[r] + 1 + escaped'
            /\ Due' <= count' + escaped' + 1
        BY <1>3, <2>1, <4>1, <4>2, AllowanceAssumption DEF AllowanceInv, AutoShape
      <4> QED  BY <4>3, <4>4 DEF Counted
    <3>2. CASE ~alone[r]
      <4>1. Due' = Due  BY <1>3, <2>3, <3>2 DEF Due
      <4>2. (\E p \in Pending' : alone'[p]) <=> \E p \in Pending : alone[p]
        BY <1>3, <2>2, <3>2
      <4>3. Due' <= seen'[r] + 1 + escaped'
        BY <1>3, <2>1, <4>1, DueIsNat DEF AllowanceInv, AutoShape, Counted
      <4> QED  BY <1>3, <2>2, <4>1, <4>2, <4>3 DEF AllowanceInv, Counted
    <3> QED  BY <3>1, <3>2
  <2> QED  BY <1>1, <1>2, <2>5, <2>6 DEF AllowanceInv
<1> QED  BY <1>5, <1>6 DEF Enqueue

\* An apply that is queued was due if its request was let in alone; any other
\* has escaped, and so has one whose reply was lost.
LEMMA PushKeeps ==
  ASSUME AllowanceInv, NEW r \in Requesters, NEW replied \in BOOLEAN, Push(r, replied)
  PROVE  AllowanceInv'
<1>1. AutoShape'  BY DEF AllowanceInv, AutoShape, Push
<1>2. Locked'  BY NobodyAsks DEF AllowanceInv, AutoShape, Locked, Push
<1>3. r \in Pending /\ at[r] = "pushing" /\ applies' = applies + 1
      /\ UNCHANGED <<count, lock, seen, alone>>
  BY DEF Push, Pending
<1>4. CASE replied
  <2>1. at' = [at EXCEPT ![r] = "counting"]
        /\ escaped' = IF alone[r] THEN escaped ELSE escaped + 1
    BY <1>4 DEF Push
  <2>2. Pending' = Pending  BY <1>3, <2>1 DEF AllowanceInv, AutoShape, Pending
  <2>3. Coming' = Coming \ {r}  BY <1>3, <2>1, <2>2 DEF AllowanceInv, AutoShape, Coming
  <2>4. Alone'  BY <1>3, <2>1, <2>2 DEF AllowanceInv, AutoShape, Alone
  <2>5. Counted'
    <3>1. CASE alone[r]
      <4>1. Coming = {r}  BY <1>3, <3>1 DEF AllowanceInv, Alone, Coming
      <4>2. Due' = Due  BY <1>3, <2>3, <4>1 DEF Due
      <4> QED  BY <1>3, <2>1, <2>2, <3>1, <4>2 DEF AllowanceInv, Counted
    <3>2. CASE ~alone[r]
      <4>1. Coming' = Coming  BY <2>3, <3>2 DEF Coming
      <4>2. Due' = Due + 1  BY <1>3, <4>1 DEF AllowanceInv, AutoShape, Due
      <4> QED  BY <1>3, <2>1, <2>2, <3>2, <4>2, DueIsNat, AllowanceAssumption
               DEF AllowanceInv, AutoShape, Counted, Pending
    <3> QED  BY <3>1, <3>2
  <2> QED  BY <1>1, <1>2, <2>4, <2>5 DEF AllowanceInv
<1>5. CASE ~replied
  <2>1. at' = [at EXCEPT ![r] = "idle"] /\ escaped' = escaped + 1  BY <1>5 DEF Push
  <2>2. Alone'  BY <1>3, <2>1, LeavingIsAlone
  <2>3. Counted'
    <3>1. CASE alone[r]
      <4>1. Due' = Due  BY <1>3, <2>1, <3>1, Leaves DEF Due
      <4> QED  BY <1>3, <2>1, <3>1, <4>1, Leaves, DueIsNat, AllowanceAssumption
               DEF AllowanceInv, AutoShape, Counted, Pending
    <3>2. CASE ~alone[r]
      <4>1. Due' = Due + 1  BY <1>3, <2>1, <3>2, Leaves DEF AllowanceInv, AutoShape, Due
      <4> QED  BY <1>3, <2>1, <3>2, <4>1, Leaves, DueIsNat, AllowanceAssumption
               DEF AllowanceInv, AutoShape, Counted, Pending
    <3> QED  BY <3>1, <3>2
  <2> QED  BY <1>1, <1>2, <2>2, <2>3 DEF AllowanceInv
<1> QED  BY <1>4, <1>5

\* Whoever counts brings the count up to what it read and one more.
LEMMA CountKeeps == ASSUME AllowanceInv, NEW r \in Requesters, Count(r) PROVE AllowanceInv'
<1>1. AutoShape'  BY DEF AllowanceInv, AutoShape, Count
<1>2. Locked'  BY NobodyAsks DEF AllowanceInv, AutoShape, Locked, Count
<1>3. /\ r \in Pending /\ at[r] = "counting" /\ lock = Nobody /\ count' = seen[r] + 1
      /\ at' = [at EXCEPT ![r] = "idle"] /\ UNCHANGED <<seen, applies, alone, escaped>>
  BY DEF Count, Pending
<1>4. Alone'  BY <1>3, LeavingIsAlone
<1>5. Due' = Due
  BY <1>3, Leaves DEF Due
<1>6. Due <= seen[r] + 1 + escaped  BY <1>3 DEF AllowanceInv, Counted
<1>7. Counted'
  BY <1>3, <1>5, <1>6, Leaves, DueIsNat DEF AllowanceInv, AutoShape, Counted, Pending
<1> QED  BY <1>1, <1>2, <1>4, <1>7 DEF AllowanceInv

\* The apply of a request that dies before it counts has escaped.
LEMMA DieKeeps == ASSUME AllowanceInv, NEW r \in Requesters, Die(r) PROVE AllowanceInv'
<1>1. AutoShape'  BY DEF AllowanceInv, AutoShape, Die
<1>2. Locked'  BY NobodyAsks DEF AllowanceInv, AutoShape, Locked, Die
<1>3. /\ r \in Pending /\ at[r] = "counting"
      /\ at' = [at EXCEPT ![r] = "idle"] /\ UNCHANGED <<count, seen, applies, alone>>
      /\ escaped' = IF alone[r] THEN escaped + 1 ELSE escaped
  BY DEF Die, Pending
<1>4. Alone'  BY <1>3, LeavingIsAlone
<1>5. Due' = Due  BY <1>3, Leaves DEF Due
<1>6. Counted'
  BY <1>3, <1>5, Leaves, DueIsNat, AllowanceAssumption
     DEF AllowanceInv, AutoShape, Counted, Pending
<1> QED  BY <1>1, <1>2, <1>4, <1>6 DEF AllowanceInv

\* Auto that is acknowledged again starts anew.
LEMMA SetModeKeeps == ASSUME AllowanceInv, NEW to \in {"auto", "confirm"}, SetMode(to) PROVE AllowanceInv'
<1>1. AutoShape'  BY DEF AllowanceInv, AutoShape, SetMode
<1>2. Locked'  BY DEF AllowanceInv, Locked, SetMode
<1>3. Pending' = Pending /\ Coming' = Coming /\ UNCHANGED <<seen, alone, at>>
  BY DEF Pending, Coming, SetMode
<1>4. Alone'
  <2>1. \A r \in Requesters : at'[r] # "checking"
    BY <1>3, NobodyAsks DEF AllowanceInv, Locked, SetMode
  <2> QED  BY <1>3, <2>1 DEF AllowanceInv, Alone
<1>5. Counted'
  <2>1. CASE to = "auto"
    <3>1. count' = 0 /\ applies' = 0 /\ escaped' = 0  BY <2>1 DEF SetMode
    <3>2. Due' = (IF Coming = {} THEN 0 ELSE 1)  BY <1>3, <3>1 DEF Due
    <3>3. Coming # {} => \E r \in Pending : alone[r]  BY DEF Coming
    <3> QED  BY <1>3, <3>1, <3>2, <3>3, AllowanceAssumption
             DEF AllowanceInv, AutoShape, Counted, Pending
  <2>2. CASE to = "confirm"
    BY <1>3, <2>2, NothingQueued DEF SetMode
  <2> QED  BY <2>1, <2>2
<1> QED  BY <1>1, <1>2, <1>4, <1>5 DEF AllowanceInv

\* The invariant holds of every reachable state.
THEOREM AllowanceInvariance == AutoSpec => []AllowanceInv
<1>1. AutoInit => AllowanceInv
  <2> SUFFICES ASSUME AutoInit PROVE AllowanceInv  OBVIOUS
  <2>1. AutoShape  BY DEF AutoInit, AutoShape
  <2>2. Locked  BY NobodyAsks DEF AutoInit, Locked
  <2>3. Pending = {} /\ Coming = {}  BY DEF AutoInit, Pending, Coming
  <2>4. Alone  BY <2>3 DEF AutoInit, Alone
  <2>5. Counted  BY <2>3, AllowanceAssumption DEF AutoInit, Counted, Due
  <2> QED  BY <2>1, <2>2, <2>4, <2>5 DEF AllowanceInv
<1>2. AllowanceInv /\ [AutoNext]_autoVars => AllowanceInv'
  <2> SUFFICES ASSUME AllowanceInv, [AutoNext]_autoVars PROVE AllowanceInv'  OBVIOUS
  <2>1. CASE UNCHANGED autoVars
    <3>1. AutoShape' /\ Locked' /\ Alone' /\ Pending' = Pending /\ Coming' = Coming
      BY <2>1 DEF AllowanceInv, AutoShape, Locked, Alone, Pending, Coming, autoVars
    <3> QED  BY <2>1, <3>1, NothingQueued DEF AllowanceInv, autoVars
  <2>2. CASE AutoNext
    BY <2>2, AskKeeps, RefuseKeeps, EnqueueKeeps, PushKeeps, CountKeeps, DieKeeps,
       SetModeKeeps DEF AutoNext
  <2> QED  BY <2>1, <2>2
<1> QED  BY <1>1, <1>2, PTL DEF AutoSpec

\* However requests overlap, no automatic applies are queued beyond the
\* allowance but those that escaped the count.
THEOREM AllowanceKept == AutoSpec => []AllowanceIsKept
<1>1. AllowanceInv => AllowanceIsKept
  <2> SUFFICES ASSUME AllowanceInv PROVE AllowanceIsKept  OBVIOUS
  <2>1. applies <= Due  BY DEF AllowanceInv, AutoShape, Due
  <2>2. Pending = {} => Due = applies /\ ~\E r \in Pending : alone[r]  BY DEF Due, Coming
  <2> QED  BY <2>1, <2>2, DueIsNat, AllowanceAssumption
           DEF AllowanceInv, AutoShape, Counted, AllowanceIsKept
<1> QED  BY <1>1, AllowanceInvariance, PTL
=============================================================================
