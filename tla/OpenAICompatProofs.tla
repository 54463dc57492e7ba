-------------------------- MODULE OpenAICompatProofs --------------------------
(* Theorems about OpenAICompat, for any backend and any lines.             *)
EXTENDS OpenAICompat, IterationTheorems

Texted == [kind : {"piece"}, text : Pieces]

Typed ==
    /\ include_reasoning \in BOOLEAN
    /\ phase \in {"asked", "reading", "closing", "ended", "failed", "no_answer", "closed"}
    /\ answered \in BOOLEAN /\ reasoned \in BOOLEAN
    /\ usage \in [prompt : Numbers, completion : Numbers] \cup {Unreported}
    /\ finish_reason \in Reasons
    /\ due \in Seq(Items) /\ out \in Seq(Items)
    /\ lines \in Seq(Lines)

\* While lines are read, only text is due; before that, nothing.
DueSound ==
    /\ phase = "asked" => due = << >>
    /\ phase = "reading" => due \in Seq(Texted)

\* Only text was yielded while the end is not reached, and in every failure.
OutSound ==
    \/ phase \in {"asked", "reading", "failed", "no_answer"}
    \/ phase = "closing" /\ due # << >>
    => out \in Seq(Texted)

\* The closing Usage is due, or is the last item yielded; or there is none.
ClosingSound ==
    /\ phase = "closing" /\ due # << >> => due = Closing
    /\ (phase = "closing" /\ due = << >>) \/ phase = "ended" =>
          Closing = << >> \/ (out # << >> /\ <<Last(out)>> = Closing)

\* An answer that was let through, or refused, was judged by what was seen.
VerdictSound ==
    /\ phase \in {"closing", "ended"} => ~Blank
    /\ phase = "no_answer" => Blank

\* answered and reasoned are what the lines had.
SeenSound ==
    /\ answered <=> \E i \in DOMAIN lines : lines[i].content # Nothing
    /\ reasoned <=> \E i \in DOMAIN lines : Thought(lines[i]) # Nothing

IsLast(i, S) == i \in S /\ \A j \in S : j <= i

\* finish_reason and usage are the last ones the lines had.
LastSound ==
    /\ \/ ReasonsGiven = {} /\ finish_reason = ""
       \/ \E i \in DOMAIN lines : /\ IsLast(i, ReasonsGiven)
                                  /\ finish_reason = lines[i].finish_reason
    /\ \/ CountsGiven = {} /\ usage = Unreported
       \/ \E i \in DOMAIN lines : /\ IsLast(i, CountsGiven)
                                  /\ usage = CountsIn(lines[i])

IInv ==
    /\ Typed /\ DueSound /\ OutSound /\ ClosingSound /\ VerdictSound
    /\ SeenSound /\ LastSound

-----------------------------------------------------------------------------
(* One line.                                                               *)

\* A line has the fields it is said to have.
LEMMA LineFields ==
  ASSUME NEW line \in Lines
  PROVE  /\ line.content \in Pieces \cup {Nothing}
         /\ Thought(line) \in Pieces \cup {Nothing}
         /\ line.finish_reason \in Reasons
         /\ line.prompt_tokens \in Counts \cup {Absent}
         /\ line.completion_tokens \in Counts \cup {Absent}
  BY LinesTyped DEF Line, Thought

\* The counts found in a line are numbers, and none are found in a line without any.
LEMMA CountsFound ==
  ASSUME NEW line \in Lines
  PROVE  /\ CountsIn(line) \in [prompt : Numbers, completion : Numbers] \cup {Unreported}
         /\ CountsIn(line) # Unreported
              <=> {line.prompt_tokens, line.completion_tokens} # {Absent}
<1>1. CASE line.prompt_tokens = Absent /\ line.completion_tokens = Absent
  BY <1>1 DEF CountsIn
<1>2. CASE ~(line.prompt_tokens = Absent /\ line.completion_tokens = Absent)
  <2>. DEFINE p == IF line.prompt_tokens = Absent THEN 0 ELSE line.prompt_tokens
              c == IF line.completion_tokens = Absent THEN 0 ELSE line.completion_tokens
  <2>1. CountsIn(line) = [prompt |-> p, completion |-> c]
    BY <1>2 DEF CountsIn
  <2>2. p \in Numbers /\ c \in Numbers
    BY LineFields DEF Numbers
  <2>3. p # Absent
    BY <2>2, SymbolsApart
  <2>. HIDE DEF p, c
  <2>4. CountsIn(line) # Unreported
    BY <2>1, <2>3 DEF Unreported
  <2>5. {line.prompt_tokens, line.completion_tokens} # {Absent}
    BY <1>2
  <2>6. QED
    BY <2>1, <2>2, <2>4, <2>5
<1>3. QED
  BY <1>1, <1>2

\* Text that is there is text; a line yields nothing else.
LEMMA YieldsText ==
  ASSUME NEW line \in Lines, NEW kept \in BOOLEAN
  PROVE  Yields(line, kept) \in Seq(Texted)
<1>1. ASSUME NEW text \in Pieces \cup {Nothing}
      PROVE  Given(text) \in Seq(Texted)
  <2>1. CASE text = Nothing
    BY <2>1 DEF Given
  <2>2. CASE text # Nothing
    <3>1. Piece(text) \in Texted
      BY <2>2 DEF Piece, Texted
    <3>2. QED
      BY <2>2, <3>1 DEF Given
  <2>3. QED
    BY <2>1, <2>2
<1>2. << >> \in Seq(Texted)
  OBVIOUS
<1>3. Given(Thought(line)) \in Seq(Texted) /\ Given(line.content) \in Seq(Texted)
  BY <1>1, LineFields
<1>4. QED
  BY <1>2, <1>3 DEF Yields

\* The closing Usage is at most one item, and reports the counts or the cut.
LEMMA ClosingIsUsage ==
  ASSUME Typed
  PROVE  \/ Closing = << >> /\ usage = Unreported /\ finish_reason # "length"
         \/ \E item \in Usages :
               /\ Closing = <<item>> /\ item.finish = finish_reason
               /\ usage # Unreported =>
                     item.prompt = usage.prompt /\ item.completion = usage.completion
<1>1. CASE usage # Unreported
  <2>1. /\ Usage(usage, finish_reason) \in Usages
        /\ Usage(usage, finish_reason).finish = finish_reason
        /\ Usage(usage, finish_reason).prompt = usage.prompt
        /\ Usage(usage, finish_reason).completion = usage.completion
    BY <1>1 DEF Typed, Usage, Usages
  <2>2. Closing = <<Usage(usage, finish_reason)>>
    BY <1>1 DEF Closing
  <2>3. QED
    BY <2>1, <2>2
<1>2. CASE usage = Unreported /\ finish_reason = "length"
  <2>1. /\ Usage(NoCounts, finish_reason) \in Usages
        /\ Usage(NoCounts, finish_reason).finish = finish_reason
    BY <1>2 DEF Typed, Usage, Usages, NoCounts, Numbers
  <2>2. Closing = <<Usage(NoCounts, finish_reason)>>
    BY <1>2 DEF Closing
  <2>3. QED
    BY <1>2, <2>1, <2>2
<1>3. CASE usage = Unreported /\ finish_reason # "length"
  BY <1>3 DEF Closing
<1>4. QED
  BY <1>1, <1>2, <1>3

\* Text and the closing Usage are items.
LEMMA ItemsAre ==
  ASSUME NEW s \in Seq(Texted) PROVE s \in Seq(Items)
<1>1. \A x \in Texted : x \in Items
  BY DEF Texted, Items
<1>2. QED
  BY <1>1

-----------------------------------------------------------------------------
(* The invariant.                                                          *)

\* The invariant holds at the start.
LEMMA InitInvariant == Init => IInv
<1>1. SUFFICES ASSUME Init PROVE IInv
  OBVIOUS
<1>2. /\ phase = "asked" /\ due = << >> /\ out = << >> /\ lines = << >>
      /\ answered = FALSE /\ reasoned = FALSE /\ usage = Unreported
      /\ finish_reason = "" /\ include_reasoning \in BOOLEAN
  BY <1>1 DEF Init
<1>3. << >> \in Seq(Texted) /\ << >> \in Seq(Items) /\ << >> \in Seq(Lines)
  OBVIOUS
<1>4. Typed
  BY <1>2, <1>3 DEF Typed, Reasons
<1>5. DueSound /\ OutSound /\ ClosingSound /\ VerdictSound
  BY <1>2, <1>3 DEF DueSound, OutSound, ClosingSound, VerdictSound
<1>6. DOMAIN lines = {}
  <2>1. DOMAIN << >> = {}
    OBVIOUS
  <2>2. QED
    BY <1>2, <2>1
<1>7. SeenSound
  BY <1>2, <1>6 DEF SeenSound
<1>8. LastSound
  BY <1>2, <1>6 DEF LastSound, ReasonsGiven, CountsGiven
<1>9. QED
  BY <1>4, <1>5, <1>7, <1>8 DEF IInv

\* What was seen stays true of the lines while neither changes.
LEMMA SeenKept ==
  ASSUME SeenSound, LastSound, UNCHANGED <<seen, lines>>
  PROVE  SeenSound' /\ LastSound'
<1>1. /\ lines' = lines /\ answered' = answered /\ reasoned' = reasoned
      /\ usage' = usage /\ finish_reason' = finish_reason
  BY DEF seen
<1>2. ReasonsGiven' = ReasonsGiven /\ CountsGiven' = CountsGiven
  BY <1>1 DEF ReasonsGiven, CountsGiven
<1>3. QED
  BY <1>1, <1>2 DEF SeenSound, LastSound

\* A line is read: its text is due, and it may have the last reason or counts.
LEMMA ReadStep ==
  ASSUME IInv, NEW line \in Lines, Read(line)
  PROVE  IInv'
<1>1. /\ phase = "reading" /\ phase' = "reading" /\ out' = out
      /\ include_reasoning' = include_reasoning /\ include_reasoning \in BOOLEAN
      /\ lines' = Append(lines, line) /\ lines \in Seq(Lines)
      /\ due' = Yields(line, include_reasoning)
  BY DEF Read, AwaitsLine, IInv, Typed
<1>2. due' \in Seq(Texted) /\ due' \in Seq(Items)
  BY <1>1, YieldsText, ItemsAre
<1>3. /\ finish_reason' = IF line.finish_reason # "" THEN line.finish_reason
                          ELSE finish_reason
      /\ usage' = IF CountsIn(line) # Unreported THEN CountsIn(line) ELSE usage
      /\ reasoned' = (reasoned \/ Thought(line) # Nothing)
      /\ answered' = (answered \/ line.content # Nothing)
  BY DEF Read
<1>. DEFINE new == Len(lines) + 1
<1>4. /\ lines' \in Seq(Lines) /\ lines'[new] = line /\ new \in DOMAIN lines'
      /\ new \notin DOMAIN lines
      /\ \A i \in DOMAIN lines : i \in DOMAIN lines' /\ lines'[i] = lines[i] /\ i <= new
      /\ \A i \in DOMAIN lines' : i \in DOMAIN lines \/ i = new
      /\ new <= new
  BY <1>1
<1>. HIDE DEF new
<1>5. Typed'
  <2>1. finish_reason' \in Reasons
    BY <1>3, LineFields DEF IInv, Typed
  <2>2. usage' \in [prompt : Numbers, completion : Numbers] \cup {Unreported}
    BY <1>3, CountsFound DEF IInv, Typed
  <2>3. Unreported' = Unreported
    BY DEF Unreported
  <2>4. reasoned' \in BOOLEAN /\ answered' \in BOOLEAN
    BY <1>3
  <2>5. QED
    BY <1>1, <1>2, <1>4, <2>1, <2>2, <2>3, <2>4 DEF IInv, Typed
<1>6. DueSound' /\ OutSound' /\ ClosingSound' /\ VerdictSound'
  <2>1. DueSound'
    BY <1>1, <1>2 DEF DueSound
  <2>2. OutSound'
    BY <1>1 DEF IInv, OutSound
  <2>3. ClosingSound' /\ VerdictSound'
    BY <1>1 DEF ClosingSound, VerdictSound
  <2>4. QED
    BY <2>1, <2>2, <2>3
<1>7. SeenSound'
  <2>1. answered' <=> \E i \in DOMAIN lines' : lines'[i].content # Nothing
    <3>1. answered' <=> answered \/ line.content # Nothing
      BY <1>3
    <3>2. QED
      BY <1>4, <3>1 DEF IInv, SeenSound
  <2>2. reasoned' <=> \E i \in DOMAIN lines' : Thought(lines'[i]) # Nothing
    <3>1. reasoned' <=> reasoned \/ Thought(line) # Nothing
      BY <1>3
    <3>2. \A i \in DOMAIN lines : Thought(lines'[i]) = Thought(lines[i])
      BY <1>4
    <3>3. Thought(lines'[new]) = Thought(line)
      BY <1>4
    <3>4. QED
      BY <1>4, <3>1, <3>2, <3>3 DEF IInv, SeenSound
  <2>3. QED
    BY <2>1, <2>2 DEF SeenSound
<1>8. \/ ReasonsGiven' = {} /\ finish_reason' = ""
      \/ \E i \in DOMAIN lines' : /\ IsLast(i, ReasonsGiven')
                                  /\ finish_reason' = lines'[i].finish_reason
  <2>1. ReasonsGiven' = { i \in DOMAIN lines' : lines'[i].finish_reason # "" }
    BY DEF ReasonsGiven
  <2>2. CASE line.finish_reason # ""
    <3>1. \A i \in ReasonsGiven' : i <= new
      BY <1>4, <2>1
    <3>2. new \in ReasonsGiven'
      BY <1>4, <2>1, <2>2
    <3>3. finish_reason' = lines'[new].finish_reason
      BY <1>3, <1>4, <2>2
    <3>4. QED
      BY <1>4, <3>1, <3>2, <3>3 DEF IsLast
  <2>3. CASE line.finish_reason = ""
    <3>1. ReasonsGiven' = ReasonsGiven
      BY <1>4, <2>1, <2>3 DEF ReasonsGiven
    <3>2. finish_reason' = finish_reason
      BY <1>3, <2>3
    <3>3. QED
      BY <1>4, <3>1, <3>2 DEF IInv, LastSound
  <2>4. QED
    BY <2>2, <2>3
<1>9. \/ CountsGiven' = {} /\ usage' = Unreported
      \/ \E i \in DOMAIN lines' : /\ IsLast(i, CountsGiven')
                                  /\ usage' = CountsIn(lines'[i])
  <2>1. CountsGiven' = { i \in DOMAIN lines' :
            {lines'[i].prompt_tokens, lines'[i].completion_tokens} # {Absent} }
    BY DEF CountsGiven
  <2>2. CASE CountsIn(line) # Unreported
    <3>1. \A i \in CountsGiven' : i <= new
      BY <1>4, <2>1
    <3>2. new \in CountsGiven'
      BY <1>4, <2>1, <2>2, CountsFound
    <3>3. usage' = CountsIn(lines'[new])
      BY <1>3, <1>4, <2>2
    <3>4. QED
      BY <1>4, <3>1, <3>2, <3>3 DEF IsLast
  <2>3. CASE CountsIn(line) = Unreported
    <3>1. {line.prompt_tokens, line.completion_tokens} = {Absent}
      BY <2>3, CountsFound
    <3>2. CountsGiven' = CountsGiven
      BY <1>4, <2>1, <3>1 DEF CountsGiven
    <3>3. usage' = usage
      BY <1>3, <2>3
    <3>4. QED
      BY <1>4, <3>2, <3>3 DEF IInv, LastSound
  <2>4. QED
    BY <2>2, <2>3
<1>10. LastSound'
  BY <1>8, <1>9 DEF LastSound, Unreported
<1>11. QED
  BY <1>5, <1>6, <1>7, <1>10 DEF IInv

\* An item is yielded: text while lines are read, otherwise the closing Usage.
LEMMA GiveStep ==
  ASSUME IInv, Give
  PROVE  IInv'
<1>1. /\ due # << >> /\ phase \in {"reading", "closing"}
      /\ out' = Append(out, Head(due)) /\ due' = Tail(due)
      /\ phase' = phase /\ include_reasoning' = include_reasoning
      /\ lines' = lines /\ UNCHANGED seen
      /\ due \in Seq(Items) /\ out \in Seq(Items)
  BY DEF Give, IInv, Typed
<1>2. /\ answered' = answered /\ reasoned' = reasoned /\ usage' = usage
      /\ finish_reason' = finish_reason
  BY <1>1 DEF seen
<1>3. out' \in Seq(Items) /\ due' \in Seq(Items)
  BY <1>1
<1>4. Typed'
  BY <1>1, <1>2, <1>3 DEF IInv, Typed, Unreported
<1>5. SeenSound' /\ LastSound'
  BY <1>1, SeenKept DEF IInv
<1>6. VerdictSound' /\ Closing' = Closing
  BY <1>1, <1>2 DEF IInv, VerdictSound, Blank, Closing, Usage, Unreported
<1>7. CASE phase = "reading"
  <2>1. due \in Seq(Texted) /\ out \in Seq(Texted)
    BY <1>7 DEF IInv, DueSound, OutSound
  <2>2. due' \in Seq(Texted) /\ out' \in Seq(Texted)
    BY <1>1, <2>1
  <2>3. DueSound' /\ OutSound' /\ ClosingSound'
    BY <1>1, <1>7, <2>2 DEF DueSound, OutSound, ClosingSound
  <2>4. QED
    BY <1>4, <1>5, <1>6, <2>3 DEF IInv
<1>8. CASE phase = "closing"
  <2>1. due = Closing
    BY <1>1, <1>8 DEF IInv, ClosingSound
  <2>2. PICK item \in Usages : Closing = <<item>>
    BY <1>1, <2>1, ClosingIsUsage DEF IInv
  <2>3. due' = << >> /\ out' = Append(out, item)
    BY <1>1, <2>1, <2>2
  <2>4. out' # << >> /\ Last(out') = item
    BY <1>1, <2>3 DEF Last
  <2>5. DueSound' /\ OutSound' /\ ClosingSound'
    BY <1>1, <1>6, <1>8, <2>2, <2>3, <2>4 DEF DueSound, OutSound, ClosingSound
  <2>6. QED
    BY <1>4, <1>5, <1>6, <2>5 DEF IInv
<1>9. QED
  BY <1>1, <1>7, <1>8

\* The lines end: the answer is judged.
LEMMA EndStep ==
  ASSUME IInv, EndOfLines
  PROVE  IInv'
<1>1. /\ phase = "reading" /\ due = << >> /\ out' = out /\ lines' = lines
      /\ include_reasoning' = include_reasoning /\ UNCHANGED seen
      /\ out \in Seq(Texted)
  BY DEF EndOfLines, IInv, OutSound
<1>2. /\ answered' = answered /\ reasoned' = reasoned /\ usage' = usage
      /\ finish_reason' = finish_reason
  BY <1>1 DEF seen
<1>3. Closing' = Closing /\ (Blank' <=> Blank)
  BY <1>1, <1>2 DEF Closing, Usage, Unreported, Blank
<1>4. SeenSound' /\ LastSound'
  BY <1>1, SeenKept DEF IInv
<1>5. Closing \in Seq(Items)
  <2>1. << >> \in Seq(Items) /\ \A item \in Usages : <<item>> \in Seq(Items)
    BY DEF Items
  <2>2. QED
    BY <2>1, ClosingIsUsage DEF IInv
<1>6. CASE Blank /\ phase' = "no_answer" /\ due' = due
  <2>1. Typed'
    BY <1>1, <1>2, <1>6 DEF IInv, Typed, Unreported
  <2>2. DueSound' /\ OutSound' /\ ClosingSound' /\ VerdictSound'
    BY <1>1, <1>3, <1>6 DEF DueSound, OutSound, ClosingSound, VerdictSound
  <2>3. QED
    BY <1>4, <2>1, <2>2 DEF IInv
<1>7. CASE ~Blank /\ phase' = "closing" /\ due' = Closing
  <2>1. Typed'
    BY <1>1, <1>2, <1>5, <1>7 DEF IInv, Typed, Unreported
  <2>2. DueSound' /\ OutSound' /\ ClosingSound' /\ VerdictSound'
    BY <1>1, <1>3, <1>7 DEF DueSound, OutSound, ClosingSound, VerdictSound
  <2>3. QED
    BY <1>4, <2>1, <2>2 DEF IInv
<1>8. QED
  BY <1>6, <1>7 DEF EndOfLines

\* The stream opens, fails, returns or is closed: nothing is yielded.
LEMMA PhaseStep ==
  ASSUME IInv, Open \/ Fail \/ Return \/ Close \/ UNCHANGED vars
  PROVE  IInv'
<1>1. /\ due' = due /\ out' = out /\ lines' = lines
      /\ include_reasoning' = include_reasoning /\ UNCHANGED seen
  BY DEF Open, Fail, Return, Close, vars
<1>2. /\ answered' = answered /\ reasoned' = reasoned /\ usage' = usage
      /\ finish_reason' = finish_reason
  BY <1>1 DEF seen
<1>3. Closing' = Closing /\ (Blank' <=> Blank)
  BY <1>1, <1>2 DEF Closing, Usage, Unreported, Blank
<1>4. SeenSound' /\ LastSound'
  BY <1>1, SeenKept DEF IInv
<1>5. \/ phase = "asked" /\ phase' = "reading"
      \/ phase \in {"asked", "reading"} /\ phase' = "failed"
      \/ phase = "closing" /\ due = << >> /\ phase' = "ended"
      \/ phase' = "closed"
      \/ phase' = phase
  BY DEF Open, Fail, Return, Close, vars
<1>6. << >> \in Seq(Texted)
  OBVIOUS
<1>7. Typed'
  BY <1>1, <1>2, <1>5 DEF IInv, Typed, Unreported
<1>8. DueSound' /\ OutSound'
  BY <1>1, <1>5, <1>6 DEF IInv, DueSound, OutSound
<1>9. ClosingSound' /\ VerdictSound'
  BY <1>1, <1>3, <1>5 DEF IInv, ClosingSound, VerdictSound
<1>10. QED
  BY <1>4, <1>7, <1>8, <1>9 DEF IInv

\* Every step preserves the invariant.
LEMMA StepInvariant == IInv /\ [Next]_vars => IInv'
  BY ReadStep, GiveStep, EndStep, PhaseStep DEF Next

\* The inductive invariant holds in every reachable state.
THEOREM Invariance == Spec => []IInv
  BY InitInvariant, StepInvariant, PTL DEF Spec

-----------------------------------------------------------------------------
(* The properties.                                                         *)

\* Every reachable state is well typed, for any lines of a backend.
THEOREM TypeCorrect == Spec => []TypeOK
<1>1. IInv => TypeOK
  BY DEF IInv, Typed, TypeOK
<1>2. QED
  BY <1>1, Invariance, PTL

\* For any lines of a backend: an answer of reasoning only is an error where reasoning
\* is not kept, and nothing else is that error.
THEOREM BlankAnswersAreLoud == Spec => []BlankIsLoud
<1>1. IInv => BlankIsLoud
  <2>1. SUFFICES ASSUME IInv PROVE BlankIsLoud
    OBVIOUS
  <2>2. \A i \in DOMAIN lines : lines[i] \in Lines
    BY <2>1 DEF IInv, Typed
  <2>3. \A i \in DOMAIN lines :
          {lines[i].reasoning_content, lines[i].reasoning} # {Nothing}
            <=> Thought(lines[i]) # Nothing
    BY DEF Thought
  <2>4. QED
    BY <2>1, <2>3 DEF IInv, VerdictSound, SeenSound, Blank, BlankIsLoud, Said
<1>2. QED
  BY <1>1, Invariance, PTL

\* CHOOSE finds the one last index there is.
LEMMA LastIsUnique ==
  ASSUME Typed, NEW S, S \subseteq DOMAIN lines, NEW i, IsLast(i, S)
  PROVE  LastOf(S) = i
<1>1. \A j \in S : j \in Nat
  BY DEF Typed
<1>2. \A k \in S : (\A j \in S : j <= k) => k = i
  BY <1>1 DEF IsLast
<1>3. i \in S /\ \A j \in S : j <= i
  BY DEF IsLast
<1>4. QED
  BY <1>2, <1>3 DEF LastOf

\* The last item of a stream that ended is its closing Usage, if there is one.
LEMMA EndsWithClosing ==
  ASSUME IInv, phase = "ended", Closing # << >>
  PROVE  /\ out # << >> /\ Last(out).kind = "usage" /\ Last(out).finish = finish_reason
         /\ usage # Unreported =>
              Last(out).prompt = usage.prompt /\ Last(out).completion = usage.completion
<1>1. PICK item \in Usages :
        /\ Closing = <<item>> /\ item.finish = finish_reason
        /\ usage # Unreported =>
              item.prompt = usage.prompt /\ item.completion = usage.completion
  BY ClosingIsUsage DEF IInv
<1>2. out # << >> /\ <<Last(out)>> = <<item>>
  BY <1>1 DEF IInv, ClosingSound
<1>3. Last(out) = item
  BY <1>2
<1>4. QED
  BY <1>1, <1>2, <1>3 DEF Usages

\* For any lines of a backend: an answer whose last reason is "length" ends with a Usage
\* that says so.
THEOREM CutsAreReported == Spec => []CutIsReported
<1>1. IInv => CutIsReported
  <2>1. SUFFICES ASSUME IInv, phase = "ended", ReasonsGiven # {},
                        lines[LastOf(ReasonsGiven)].finish_reason = "length"
                 PROVE  out # << >> /\ Last(out).kind = "usage"
                                    /\ Last(out).finish = "length"
    BY DEF CutIsReported
  <2>2. PICK i \in DOMAIN lines : /\ IsLast(i, ReasonsGiven)
                                  /\ finish_reason = lines[i].finish_reason
    BY <2>1 DEF IInv, LastSound
  <2>3. LastOf(ReasonsGiven) = i
    BY <2>1, <2>2, LastIsUnique DEF IInv, ReasonsGiven
  <2>4. finish_reason = "length"
    BY <2>1, <2>2, <2>3
  <2>5. Closing # << >>
    BY <2>1, <2>4, ClosingIsUsage DEF IInv
  <2>6. QED
    BY <2>1, <2>4, <2>5, EndsWithClosing
<1>2. QED
  BY <1>1, Invariance, PTL

\* For any lines of a backend: the last counts it gave are the ones reported.
THEOREM CountsAreReported == Spec => []LastCountsReported
<1>1. IInv => LastCountsReported
  <2>1. SUFFICES ASSUME IInv, phase = "ended", CountsGiven # {}
                 PROVE  LastCountsReported
    BY DEF LastCountsReported
  <2>2. PICK i \in DOMAIN lines : IsLast(i, CountsGiven) /\ usage = CountsIn(lines[i])
    BY <2>1 DEF IInv, LastSound
  <2>3. LastOf(CountsGiven) = i
    BY <2>1, <2>2, LastIsUnique DEF IInv, CountsGiven
  <2>4. /\ lines[i] \in Lines
        /\ {lines[i].prompt_tokens, lines[i].completion_tokens} # {Absent}
    <3>1. lines \in Seq(Lines)
      BY <2>1 DEF IInv, Typed
    <3>2. lines[i] \in Lines
      BY <3>1
    <3>3. i \in CountsGiven
      BY <2>2 DEF IsLast
    <3>4. QED
      BY <3>2, <3>3 DEF CountsGiven
  <2>5. usage # Unreported
    BY <2>2, <2>4, CountsFound
  <2>6. Closing # << >>
    <3>1. Typed
      BY <2>1 DEF IInv
    <3>2. \E item \in Usages : Closing = <<item>>
      BY <2>5, <3>1, ClosingIsUsage
    <3>3. QED
      BY <3>2
  <2>7. /\ usage.prompt = IF lines[i].prompt_tokens = Absent THEN 0
                          ELSE lines[i].prompt_tokens
        /\ usage.completion = IF lines[i].completion_tokens = Absent THEN 0
                              ELSE lines[i].completion_tokens
    BY <2>2, <2>4 DEF CountsIn
  <2>8. QED
    BY <2>1, <2>3, <2>5, <2>6, <2>7, EndsWithClosing DEF LastCountsReported
<1>2. QED
  BY <1>1, Invariance, PTL

\* For any lines of a backend: what it said last, of the counts and of a cut, is in the
\* Usage that closes the stream.
THEOREM LastWordsAreReported == Spec => []LastWordReported
  BY CutsAreReported, CountsAreReported, PTL DEF LastWordReported

-----------------------------------------------------------------------------
(* The whole answer: Texts and FlattenSeq, over lists of any length.       *)

TextOf(item) == IF item.kind = "piece" THEN <<item>> ELSE << >>

\* What each line read so far had to yield.
Replies == [i \in DOMAIN lines |-> Yields(lines[i], include_reasoning)]

AnswerKept == Texts(out \o due) = FlattenSeq(Replies)

\* Text stays text, and a Usage leaves none.
LEMMA TextOfItem ==
  ASSUME NEW x \in Items
  PROVE  /\ TextOf(x) \in Seq(Texted)
         /\ x \in Texted => TextOf(x) = <<x>>
         /\ x \in Usages => TextOf(x) = << >>
<1>1. << >> \in Seq(Texted) /\ \A y \in Texted : <<y>> \in Seq(Texted)
  OBVIOUS
<1>2. CASE x \in Texted
  <2>1. x.kind = "piece"
    BY <1>2 DEF Texted
  <2>2. x \notin Usages
    BY <2>1 DEF Usages
  <2>3. QED
    BY <1>1, <1>2, <2>1, <2>2 DEF TextOf
<1>3. CASE x \in Usages
  <2>1. x.kind # "piece"
    BY <1>3 DEF Usages
  <2>2. x \notin Texted
    BY <2>1 DEF Texted
  <2>3. QED
    BY <1>1, <1>3, <2>1, <2>2 DEF TextOf
<1>4. QED
  BY <1>2, <1>3 DEF Items, Texted

\* Texts of one item more: the item, if it is text.
LEMMA TextsAppend ==
  ASSUME NEW s \in Seq(Items), NEW x \in Items
  PROVE  Texts(s) \in Seq(Texted) /\ Texts(Append(s, x)) = Texts(s) \o TextOf(x)
<1>. DEFINE q == [i \in DOMAIN s |-> TextOf(s[i])]
            new == [i \in DOMAIN Append(s, x) |-> TextOf(Append(s, x)[i])]
<1>1. \A t : Texts(t) = FlattenSeq([i \in DOMAIN t |-> TextOf(t[i])])
  BY DEF Texts, TextOf
<1>2. q \in Seq(Seq(Texted)) /\ Len(q) = Len(s) /\ \A i \in 1..Len(s) : q[i] = TextOf(s[i])
  <2>1. DOMAIN s = 1..Len(s) /\ Len(s) \in Nat /\ \A i \in 1..Len(s) : s[i] \in Items
    OBVIOUS
  <2>2. \A i \in 1..Len(s) : TextOf(s[i]) \in Seq(Texted)
    BY <2>1, TextOfItem
  <2>3. QED
    BY <2>1, <2>2
<1>3. TextOf(x) \in Seq(Texted)
  BY TextOfItem
<1>4. new = Append(q, TextOf(x))
  <2>1. /\ Append(s, x) \in Seq(Items) /\ Len(Append(s, x)) = Len(s) + 1
        /\ Len(s) \in Nat /\ DOMAIN Append(s, x) = 1..(Len(s) + 1)
        /\ Append(s, x)[Len(s) + 1] = x
        /\ \A i \in 1..Len(s) : Append(s, x)[i] = s[i]
    OBVIOUS
  <2>2. /\ Append(q, TextOf(x)) \in Seq(Seq(Texted))
        /\ Len(Append(q, TextOf(x))) = Len(s) + 1
        /\ DOMAIN Append(q, TextOf(x)) = 1..(Len(s) + 1)
        /\ Append(q, TextOf(x))[Len(s) + 1] = TextOf(x)
        /\ \A i \in 1..Len(s) : Append(q, TextOf(x))[i] = q[i]
    <3>. HIDE DEF q
    <3>1. QED
      BY <1>2, <1>3, AppendProperties, LenProperties
  <2>3. ASSUME NEW i \in 1..(Len(s) + 1)
        PROVE  TextOf(Append(s, x)[i]) = Append(q, TextOf(x))[i]
    <3>1. i \in 1..Len(s) \/ i = Len(s) + 1
      BY <2>1
    <3>. HIDE DEF q
    <3>2. QED
      BY <1>2, <2>1, <2>2, <3>1
  <2>4. new = [i \in 1..(Len(s) + 1) |-> TextOf(Append(s, x)[i])]
    BY <2>1
  <2>5. Append(q, TextOf(x)) = [i \in 1..(Len(s) + 1) |-> Append(q, TextOf(x))[i]]
    <3>. HIDE DEF q
    <3>1. QED
      BY <2>2, LenProperties
  <2>. HIDE DEF q, new
  <2>6. QED
    BY <2>3, <2>4, <2>5
<1>5. Texts(s) = FlattenSeq(q) /\ Texts(Append(s, x)) = FlattenSeq(new)
  BY <1>1
<1>. HIDE DEF q, new
<1>6. QED
  BY <1>2, <1>3, <1>4, <1>5, FlattenAppend, FlattenType

\* Texts is made of text.
LEMMA TextsType ==
  ASSUME NEW s \in Seq(Items)
  PROVE  Texts(s) \in Seq(Texted)
<1>1. Usage(NoCounts, "") \in Items
  BY DEF Usage, NoCounts, Items, Usages, Numbers, Reasons
<1>2. QED
  BY <1>1, TextsAppend

\* Text that a line gives is text of the answer.
LEMMA TextsGiven ==
  ASSUME NEW s \in Seq(Items), NEW text \in Pieces \cup {Nothing}
  PROVE  /\ Given(text) \in Seq(Texted) /\ s \o Given(text) \in Seq(Items)
         /\ Texts(s \o Given(text)) = Texts(s) \o Given(text)
<1>. DEFINE item == Piece(text)
<1>1. CASE text = Nothing
  <2>1. Given(text) = << >>
    BY <1>1 DEF Given
  <2>2. Texts(s) \in Seq(Texted)
    BY TextsType
  <2>3. << >> \in Seq(Texted) /\ s \o << >> = s /\ Texts(s) \o << >> = Texts(s)
    BY <2>2, ConcatEmptySeq
  <2>4. QED
    BY <2>1, <2>3
<1>2. CASE text # Nothing
  <2>1. Given(text) = <<item>>
    BY <1>2 DEF Given
  <2>2. item \in Texted
    BY <1>2 DEF Piece, Texted
  <2>3. item \in Items
    BY <2>2 DEF Items, Texted
  <2>. HIDE DEF item
  <2>4. s \o <<item>> = Append(s, item) /\ Append(s, item) \in Seq(Items)
    BY <2>3, AppendIsConcat
  <2>5. Texts(Append(s, item)) = Texts(s) \o <<item>>
    BY <2>2, <2>3, TextsAppend, TextOfItem
  <2>6. <<item>> \in Seq(Texted)
    BY <2>2
  <2>7. QED
    BY <2>1, <2>4, <2>5, <2>6
<1>3. QED
  BY <1>1, <1>2

\* All a line yields is text of the answer, in the order of the line.
LEMMA TextsYields ==
  ASSUME NEW s \in Seq(Items), NEW line \in Lines, NEW kept \in BOOLEAN
  PROVE  Texts(s \o Yields(line, kept)) = Texts(s) \o Yields(line, kept)
<1>. DEFINE a == IF kept THEN Thought(line) ELSE Nothing
            b == line.content
<1>1. a \in Pieces \cup {Nothing} /\ b \in Pieces \cup {Nothing}
  BY LineFields
<1>2. Yields(line, kept) = Given(a) \o Given(b)
  <2>1. CASE kept
    BY <2>1 DEF Yields
  <2>2. CASE ~kept
    BY <2>2 DEF Yields, Given
  <2>3. QED
    BY <2>1, <2>2
<1>. HIDE DEF a, b
<1>3. /\ Given(a) \in Seq(Texted) /\ s \o Given(a) \in Seq(Items)
      /\ Texts(s \o Given(a)) = Texts(s) \o Given(a)
  BY <1>1, TextsGiven
<1>4. /\ Given(b) \in Seq(Texted)
      /\ Texts((s \o Given(a)) \o Given(b)) = Texts(s \o Given(a)) \o Given(b)
  BY <1>1, <1>3, TextsGiven
<1>5. Given(a) \in Seq(Items) /\ Given(b) \in Seq(Items) /\ Texts(s) \in Seq(Texted)
  BY <1>3, <1>4, ItemsAre, TextsType
<1>6. (s \o Given(a)) \o Given(b) = s \o (Given(a) \o Given(b))
  <2>. DEFINE ga == Given(a)
              gb == Given(b)
  <2>1. ga \in Seq(Items) /\ gb \in Seq(Items)
    BY <1>5
  <2>. HIDE DEF ga, gb
  <2>2. (s \o ga) \o gb = s \o (ga \o gb)
    BY <2>1, ConcatAssociative
  <2>3. QED
    BY <2>2 DEF ga, gb
<1>7. (Texts(s) \o Given(a)) \o Given(b) = Texts(s) \o (Given(a) \o Given(b))
  <2>. DEFINE t == Texts(s)
              ga == Given(a)
              gb == Given(b)
  <2>1. t \in Seq(Texted) /\ ga \in Seq(Texted) /\ gb \in Seq(Texted)
    BY <1>3, <1>4, <1>5
  <2>. HIDE DEF t, ga, gb
  <2>2. (t \o ga) \o gb = t \o (ga \o gb)
    BY <2>1, ConcatAssociative
  <2>3. QED
    BY <2>2 DEF t, ga, gb
<1>8. QED
  BY <1>2, <1>3, <1>4, <1>6, <1>7

\* A line that arrives is a reply more.
LEMMA AnswerRead ==
  ASSUME IInv, AnswerKept, NEW line \in Lines, Read(line)
  PROVE  AnswerKept'
<1>. DEFINE said == Yields(line, include_reasoning)
<1>1. /\ due = << >> /\ out' = out /\ due' = said /\ lines' = Append(lines, line)
      /\ include_reasoning' = include_reasoning /\ include_reasoning \in BOOLEAN
      /\ out \in Seq(Items) /\ lines \in Seq(Lines)
  BY DEF Read, AwaitsLine, IInv, Typed
<1>2. Texts(out) = FlattenSeq(Replies)
  <2>1. out \o << >> = out
    BY <1>1, ConcatEmptySeq
  <2>2. QED
    BY <1>1, <2>1 DEF AnswerKept
<1>3. said \in Seq(Texted) /\ Texts(out \o said) = Texts(out) \o said
  BY <1>1, YieldsText, TextsYields
<1>. HIDE DEF said
<1>4. /\ Replies \in Seq(Seq(Texted)) /\ Len(Replies) = Len(lines)
      /\ \A i \in 1..Len(lines) : Replies[i] = Yields(lines[i], include_reasoning)
  <2>1. DOMAIN lines = 1..Len(lines) /\ Len(lines) \in Nat
        /\ \A i \in 1..Len(lines) : lines[i] \in Lines
    BY <1>1
  <2>2. \A i \in 1..Len(lines) : Yields(lines[i], include_reasoning) \in Seq(Texted)
    BY <1>1, <2>1, YieldsText
  <2>3. QED
    BY <2>1, <2>2 DEF Replies
<1>5. Replies' = Append(Replies, said)
  <2>1. /\ lines' \in Seq(Lines) /\ Len(lines) \in Nat
        /\ DOMAIN lines' = 1..(Len(lines) + 1)
        /\ lines'[Len(lines) + 1] = line
        /\ \A i \in 1..Len(lines) : lines'[i] = lines[i]
    BY <1>1
  <2>2. /\ Append(Replies, said) \in Seq(Seq(Texted))
        /\ DOMAIN Append(Replies, said) = 1..(Len(lines) + 1)
        /\ Append(Replies, said)[Len(lines) + 1] = said
        /\ \A i \in 1..Len(lines) : Append(Replies, said)[i] = Replies[i]
    BY <1>3, <1>4, AppendProperties, LenProperties
  <2>3. ASSUME NEW i \in 1..(Len(lines) + 1)
        PROVE  Yields(lines'[i], include_reasoning) = Append(Replies, said)[i]
    <3>1. i \in 1..Len(lines) \/ i = Len(lines) + 1
      BY <2>1
    <3>2. CASE i \in 1..Len(lines)
      BY <1>4, <2>1, <2>2, <3>2
    <3>3. CASE i = Len(lines) + 1
      BY <2>1, <2>2, <3>3 DEF said
    <3>4. QED
      BY <3>1, <3>2, <3>3
  <2>4. Replies' = [i \in 1..(Len(lines) + 1) |-> Yields(lines'[i], include_reasoning)]
    BY <1>1, <2>1 DEF Replies
  <2>5. Append(Replies, said) = [i \in 1..(Len(lines) + 1) |-> Append(Replies, said)[i]]
    BY <2>2, LenProperties
  <2>6. QED
    BY <2>3, <2>4, <2>5
<1>6. FlattenSeq(Replies') = FlattenSeq(Replies) \o said
  BY <1>3, <1>4, <1>5, FlattenAppend
<1>7. QED
  BY <1>1, <1>2, <1>3, <1>6 DEF AnswerKept

\* An item that is yielded was due.
LEMMA AnswerGive ==
  ASSUME IInv, AnswerKept, Give
  PROVE  AnswerKept'
<1>1. /\ due # << >> /\ due \in Seq(Items) /\ out \in Seq(Items)
      /\ out' = Append(out, Head(due)) /\ due' = Tail(due)
      /\ include_reasoning' = include_reasoning /\ lines' = lines
  BY DEF Give, IInv, Typed
<1>2. Append(out, Head(due)) \o Tail(due) = out \o due
  <2>1. PICK x \in Items, s \in Seq(Items) : Head(due) = x /\ Tail(due) = s /\ due = <<x>> \o s
    <3>1. Head(due) \in Items /\ Tail(due) \in Seq(Items)
      BY <1>1
    <3>2. due = <<Head(due)>> \o Tail(due)
      BY <1>1
    <3>3. QED
      BY <3>1, <3>2
  <2>2. Append(out, x) = out \o <<x>> /\ <<x>> \in Seq(Items)
    BY <1>1, AppendIsConcat
  <2>3. (out \o <<x>>) \o s = out \o (<<x>> \o s)
    BY <1>1, <2>2, ConcatAssociative
  <2>4. QED
    BY <2>1, <2>2, <2>3
<1>3. Replies' = Replies
  BY <1>1 DEF Replies
<1>4. QED
  BY <1>1, <1>2, <1>3 DEF AnswerKept

\* The closing Usage adds no text.
LEMMA AnswerEnd ==
  ASSUME IInv, AnswerKept, EndOfLines
  PROVE  AnswerKept'
<1>1. /\ due = << >> /\ out' = out /\ out \in Seq(Items)
      /\ include_reasoning' = include_reasoning /\ lines' = lines
      /\ due' = due \/ due' = Closing
  BY DEF EndOfLines, IInv, Typed
<1>2. Replies' = Replies
  BY <1>1 DEF Replies
<1>3. Texts(out \o Closing) = Texts(out \o due)
  <2>1. CASE Closing = << >>
    BY <1>1, <2>1
  <2>2. CASE Closing # << >>
    <3>1. PICK item \in Usages : Closing = <<item>>
      BY <2>2, ClosingIsUsage DEF IInv
    <3>2. item \in Items
      BY DEF Items
    <3>3. Texts(Append(out, item)) = Texts(out) \o << >> /\ Texts(out) \in Seq(Texted)
      BY <1>1, <3>2, TextsAppend, TextOfItem
    <3>4. Append(out, item) = out \o <<item>>
      BY <1>1, <3>2, AppendIsConcat
    <3>5. out \o << >> = out /\ Texts(out) \o << >> = Texts(out)
      BY <1>1, <3>3, ConcatEmptySeq
    <3>6. QED
      BY <1>1, <3>1, <3>3, <3>4, <3>5
  <2>3. QED
    BY <2>1, <2>2
<1>4. QED
  BY <1>1, <1>2, <1>3 DEF AnswerKept

\* For any lines of a backend, however many and whatever they mix: what was yielded or is
\* due is the text of the lines, each behind the reasoning next to it if that is kept,
\* complete and in order.
THEOREM AnswersAreComplete == Spec => []AnswerIsWhatWasSaid
<1>1. Init => AnswerKept
  <2>1. SUFFICES ASSUME Init PROVE Texts(out \o due) = FlattenSeq(Replies)
    BY DEF AnswerKept
  <2>2. out = << >> /\ due = << >> /\ lines = << >>
    BY <2>1 DEF Init
  <2>3. << >> \o << >> = << >> /\ DOMAIN << >> = {}
    OBVIOUS
  <2>4. Texts(out \o due) = FlattenSeq(<< >>)
    <3>1. [i \in {} |-> TextOf((out \o due)[i])] = << >>
      OBVIOUS
    <3>2. DOMAIN (out \o due) = {}
      BY <2>2, <2>3
    <3>3. Texts(out \o due)
            = FlattenSeq([i \in DOMAIN (out \o due) |-> TextOf((out \o due)[i])])
      BY DEF Texts, TextOf
    <3>4. QED
      BY <3>1, <3>2, <3>3
  <2>5. FlattenSeq(Replies) = FlattenSeq(<< >>)
    <3>1. [i \in {} |-> Yields(lines[i], include_reasoning)] = << >>
      OBVIOUS
    <3>2. DOMAIN lines = {}
      BY <2>2, <2>3
    <3>3. QED
      BY <3>1, <3>2 DEF Replies
  <2>6. QED
    BY <2>4, <2>5
<1>2. IInv /\ AnswerKept /\ [Next]_vars => AnswerKept'
  <2>1. SUFFICES ASSUME IInv, AnswerKept, [Next]_vars PROVE AnswerKept'
    OBVIOUS
  <2>2. CASE Open \/ Fail \/ Return \/ Close \/ UNCHANGED vars
    <3>1. /\ due' = due /\ out' = out /\ lines' = lines
          /\ include_reasoning' = include_reasoning
      BY <2>2 DEF Open, Fail, Return, Close, vars
    <3>2. QED
      BY <2>1, <3>1 DEF AnswerKept, Replies
  <2>3. QED
    BY <2>1, <2>2, AnswerRead, AnswerGive, AnswerEnd DEF Next
<1>3. IInv /\ AnswerKept => AnswerIsWhatWasSaid
  <2>1. SUFFICES ASSUME IInv, AnswerKept PROVE AnswerIsWhatWasSaid
    OBVIOUS
  <2>2. include_reasoning \in BOOLEAN /\ \A i \in DOMAIN lines : lines[i] \in Lines
    BY <2>1 DEF IInv, Typed
  <2>. DEFINE Spoken(l) ==
         (IF ~include_reasoning THEN << >>
          ELSE IF l.reasoning_content # Nothing THEN <<Piece(l.reasoning_content)>>
               ELSE Given(l.reasoning))
         \o Given(l.content)
  <2>3. ASSUME NEW l \in Lines PROVE Spoken(l) = Yields(l, include_reasoning)
    <3>1. CASE ~include_reasoning
      BY <3>1 DEF Yields
    <3>2. CASE include_reasoning /\ l.reasoning_content # Nothing
      BY <3>2 DEF Yields, Thought, Given
    <3>3. CASE include_reasoning /\ l.reasoning_content = Nothing
      BY <3>3 DEF Yields, Thought
    <3>4. QED
      BY <2>2, <3>1, <3>2, <3>3
  <2>4. Replies = [i \in DOMAIN lines |-> Spoken(lines[i])]
    BY <2>2, <2>3 DEF Replies
  <2>5. AnswerIsWhatWasSaid
          <=> Texts(out \o due) = FlattenSeq([i \in DOMAIN lines |-> Spoken(lines[i])])
    BY DEF AnswerIsWhatWasSaid
  <2>6. QED
    BY <2>1, <2>4, <2>5 DEF AnswerKept
<1>4. QED
  BY <1>1, <1>2, <1>3, Invariance, PTL DEF Spec

-----------------------------------------------------------------------------
(* The contract of the engine seam.                                        *)

\* Text is no usage report.
LEMMA TextReportsNothing ==
  ASSUME out \in Seq(Texted)
  PROVE  ~Seam!Reported
<1>1. \A i \in DOMAIN out : out[i] \in Texted
  OBVIOUS
<1>2. QED
  BY <1>1 DEF Seam!Reported, Seam!IsUsage, Texted

\* Every step of the adapter is one the contract allows, or invisible to the caller.
LEMMA StepContract == IInv /\ [Next]_vars => [Seam!Next]_(Seam!vars)
<1>1. SUFFICES ASSUME IInv, [Next]_vars, ~ UNCHANGED <<out, Outcome>>
               PROVE  Seam!Next
  BY DEF Seam!vars
<1>2. CASE Give
  <2>1. /\ due # << >> /\ phase \in {"reading", "closing"} /\ phase' = phase
        /\ out' = Append(out, Head(due)) /\ due \in Seq(Items)
    BY <1>1, <1>2 DEF Give, IInv, Typed
  <2>2. Outcome = "open" /\ Outcome' = Outcome
    BY <2>1 DEF Outcome
  <2>3. out \in Seq(Texted)
    BY <1>1, <2>1 DEF IInv, OutSound
  <2>4. Head(due) \in [kind : {"piece"}, text : Pieces] \cup Usages
    BY <2>1 DEF Items
  <2>5. Seam!Yield(Head(due))
    BY <2>1, <2>2, <2>3, TextReportsNothing DEF Seam!Yield
  <2>6. QED
    BY <2>4, <2>5 DEF Seam!Next
<1>3. CASE Fail \/ EndOfLines
  <2>1. phase \in {"asked", "reading"} /\ out' = out
        /\ phase' \in {"failed", "no_answer", "closing"}
    BY <1>3 DEF Fail, EndOfLines
  <2>2. Outcome = "open"
    BY <2>1 DEF Outcome
  <2>3. Outcome' = "failed"
    BY <1>1, <2>1, <2>2 DEF Outcome
  <2>4. out \in Seq(Texted)
    BY <1>1, <2>1 DEF IInv, OutSound
  <2>5. Seam!End("failed")
    BY <2>1, <2>2, <2>3, <2>4, TextReportsNothing DEF Seam!End
  <2>6. QED
    BY <2>5 DEF Seam!Next
<1>4. CASE Return
  <2>1. Outcome = "open" /\ Outcome' = "done" /\ out' = out
    BY <1>4 DEF Return, Outcome
  <2>2. Seam!End("done")
    BY <2>1 DEF Seam!End
  <2>3. QED
    BY <2>2 DEF Seam!Next
<1>5. CASE Close
  <2>1. Outcome = "open" /\ Outcome' = "closed" /\ out' = out
    BY <1>5 DEF Close, Outcome
  <2>2. Seam!End("closed")
    BY <2>1 DEF Seam!End
  <2>3. QED
    BY <2>2 DEF Seam!Next
<1>6. CASE Open \/ (\E line \in Lines : Read(line)) \/ UNCHANGED vars
  <2>1. out' = out /\ Outcome' = Outcome
    BY <1>6 DEF Open, Read, AwaitsLine, vars, Outcome
  <2>2. QED
    BY <1>1, <2>1
<1>7. QED
  BY <1>1, <1>2, <1>3, <1>4, <1>5, <1>6 DEF Next

\* For any lines of a backend, the adapter implements the contract of the engine seam:
\* at most one Usage, behind all the text, and no error after it.
THEOREM ImplementsEngine == Spec => KeepsContract
<1>1. Init => Seam!Init
  BY DEF Init, Seam!Init, Outcome
<1>2. QED
  BY <1>1, StepContract, Invariance, PTL DEF Spec, KeepsContract, Seam!Spec
==============================================================================
