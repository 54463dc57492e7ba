-------------------------------- MODULE Stream --------------------------------
(***************************************************************************)
(* One answer on its way: the engine that produces it, the peer that seals *)
(* it piece by piece, the coordinator that relays the sealed frames and    *)
(* reads the receipt for the ledger, and the client that opens them.       *)
(*                                                                         *)
(* A piece of text is represented by its length in characters.  A frame    *)
(* carries `sealed`, the sequence number its text was sealed under: the    *)
(* nonce is derived from it, so a chunk opens under that number only.      *)
(*                                                                         *)
(* The coordinator is not trusted with the stream.  Up to MaxMeddles       *)
(* times it hands the client something other than what the peer sent.      *)
(***************************************************************************)
EXTENDS Integers, SequencesExt

CONSTANTS
    Pieces,         \* lengths of the nonempty pieces an engine may yield
    Counts,         \* token counts an engine may report; 0 means not reported
    PromptTokens,   \* what the peer estimates for the prompt
    MaxPieces,      \* bound of the model: pieces in one answer
    MaxMeddles      \* bound of the model: frames the relay tampers with

ASSUME EngineTyped ==
    /\ Pieces \subseteq Nat \ {0} /\ Counts \subseteq Nat
    /\ PromptTokens \in Nat
ASSUME BoundsTyped == MaxPieces \in Nat /\ MaxMeddles \in Nat

VARIABLES
    peer,       \* the peer's generator for this request
    said,       \* the nonempty pieces the engine yielded (history)
    up,         \* frames between peer and coordinator
    relay,      \* the coordinator's generator for this request
    bills,      \* the request's rows in the ledger's consumptions
    down,       \* frames between coordinator and client
    client,     \* CommonwealClient.events and the Completion made of it
    meddled     \* how often the relay tampered (history)

vars == <<peer, said, up, relay, bills, down, client, meddled>>

Empty == 0
Reasons == {"", "stop", "length"}       \* finish_reason

Usages == [prompt : Nat, completion : Nat, finish : Reasons]

\* A Usage that reports nothing and no Usage at all come to the same.
NoUsage == [prompt |-> 0, completion |-> 0, finish |-> ""]

\* What the ledger takes from a receipt.
Billed(usage) == [prompt |-> usage.prompt, completion |-> usage.completion]

Chunk(seq, piece, final) ==
    [kind |-> "chunk", seq |-> seq, sealed |-> seq, piece |-> piece, final |-> final]
Receipt(usage) == [kind |-> "receipt", usage |-> usage]
Error == [kind |-> "error"]

Frames ==
    [kind : {"chunk"}, seq : Nat, sealed : Nat, piece : Nat, final : BOOLEAN]
        \cup [kind : {"receipt"}, usage : Usages]
        \cup {Error}

-----------------------------------------------------------------------------
(* The peer and its engine.                                                *)

\* char/4, and at least one token for any text.
Estimate(chars) ==
    IF chars = 0 THEN 0 ELSE IF chars < 4 THEN 1 ELSE chars \div 4

\* The engine's counts where it reports them, the estimate elsewhere.
Tokens(p) ==
    [prompt |-> IF p.reported.prompt # 0 THEN p.reported.prompt ELSE PromptTokens,
     completion |-> IF p.reported.completion # 0 THEN p.reported.completion
                    ELSE Estimate(p.produced),
     finish |-> p.reported.finish]

Generating == peer.phase = "serving" /\ relay = "reading"

\* POST /infer is answered: the stream begins, or the request is refused with a
\* status that the relay turns into a RelayError.
Accept ==
    /\ peer.phase = "asked" /\ relay = "reading"
    /\ \E phase \in {"serving", "gone"} : peer' = [peer EXCEPT !.phase = phase]
    /\ UNCHANGED <<said, up, relay, bills, down, client, meddled>>

\* The engine yields a nonempty piece.  An empty one is skipped, which is a
\* stuttering step.
Say(piece) ==
    /\ Generating
    /\ Len(said) < MaxPieces
    /\ piece # Empty
    /\ said' = Append(said, piece)
    /\ peer' = [peer EXCEPT !.seq = @ + 1, !.produced = @ + piece]
    /\ up' = Append(up, Chunk(peer.seq, piece, FALSE))
    /\ UNCHANGED <<relay, bills, down, client, meddled>>

\* The engine yields a Usage; the last one counts.
Report(usage) ==
    /\ Generating
    /\ peer' = [peer EXCEPT !.reported = usage]
    /\ UNCHANGED <<said, up, relay, bills, down, client, meddled>>

\* The engine's stream ends: the final marker, then the receipt.
Finish ==
    /\ Generating
    /\ peer' = [peer EXCEPT !.phase = "ended"]
    /\ up' = up \o <<Chunk(peer.seq, Empty, TRUE), Receipt(Tokens(peer))>>
    /\ UNCHANGED <<said, relay, bills, down, client, meddled>>

\* (mutant of Fail) reports what was produced before the engine failed
FailBilled ==
    /\ Generating
    /\ peer' = [peer EXCEPT !.phase = "failed"]
    /\ up' = up \o <<Error, Receipt(Tokens(peer))>>
    /\ UNCHANGED <<said, relay, bills, down, client, meddled>>

\* EngineError: an error frame, and neither marker nor receipt.
Fail ==
    /\ Generating
    /\ peer' = [peer EXCEPT !.phase = "failed"]
    /\ up' = Append(up, Error)
    /\ UNCHANGED <<said, relay, bills, down, client, meddled>>

\* Any other exception, or the machine: the connection breaks.
Crash ==
    /\ Generating
    /\ peer' = [peer EXCEPT !.phase = "gone"]
    /\ UNCHANGED <<said, up, relay, bills, down, client, meddled>>

-----------------------------------------------------------------------------
(* The coordinator's relay.                                                *)

\* The next line: if it is the receipt it goes to the ledger, which ignores a
\* second row for the same request; in any case it is yielded unchanged.
Forward ==
    /\ relay = "reading"
    /\ up # << >>
    /\ LET frame == Head(up)
       IN /\ bills' = IF frame.kind = "receipt" /\ bills = {}
                      THEN {Billed(frame.usage)} ELSE bills
          /\ down' = Append(down, frame)
    /\ up' = Tail(up)
    /\ UNCHANGED <<peer, said, relay, client, meddled>>

\* The peer has closed the stream properly.
RelayEnds ==
    /\ relay = "reading"
    /\ up = << >>
    /\ peer.phase \in {"ended", "failed"}
    /\ relay' = "ended"
    /\ UNCHANGED <<peer, said, up, bills, down, client, meddled>>

\* RelayError: a refusal, a broken connection or a timeout.  What was not read
\* yet is lost.
RelayFails ==
    /\ relay = "reading"
    /\ relay' = "failing"
    /\ up' = << >>
    /\ UNCHANGED <<peer, said, bills, down, client, meddled>>

\* The read timeout: the peer sends nothing, or nothing any more.
PeerSilent ==
    /\ up = << >>
    /\ peer.phase \notin {"ended", "failed"}
    /\ RelayFails

\* (mutant of Excuse) a relay that failed just stops
ExcuseNot ==
    /\ relay = "failing"
    /\ relay' = "ended"
    /\ UNCHANGED <<peer, said, up, bills, down, client, meddled>>

\* The terminal error frame, and the end of the stream.
Excuse ==
    /\ relay = "failing"
    /\ down' = Append(down, Error)
    /\ relay' = "ended"
    /\ UNCHANGED <<peer, said, up, bills, client, meddled>>

\* The client is gone, or the coordinator is: the stream breaks off.
BreakOff ==
    /\ relay \in {"reading", "failing"}
    /\ relay' = "cut"
    /\ up' = << >>
    /\ UNCHANGED <<peer, said, bills, down, client, meddled>>

\* The relay alters what the client will read: it loses, repeats or swaps
\* frames, sets or clears `final`, numbers a chunk differently, or ends early.
Meddle ==
    /\ meddled < MaxMeddles
    /\ meddled' = meddled + 1
    /\ \/ /\ \E k \in DOMAIN down :
              \/ down' = RemoveAt(down, k)
              \/ down' = InsertAt(down, k, down[k])
              \/ /\ k < Len(down)
                 /\ down' = [down EXCEPT ![k] = down[k + 1], ![k + 1] = down[k]]
              \/ /\ down[k].kind = "chunk"
                 /\ \/ down' = [down EXCEPT ![k].final = ~ @]
                    \/ \E n \in 0..MaxPieces : down' = [down EXCEPT ![k].seq = n]
          /\ UNCHANGED <<relay, up>>
       \/ /\ relay \in {"reading", "failing"}
          /\ relay' = "ended"
          /\ up' = << >>
          /\ UNCHANGED down
    /\ UNCHANGED <<peer, said, bills, client>>

-----------------------------------------------------------------------------
(* The client.                                                             *)

\* unseal_chunk succeeds: the text was sealed under the number the chunk carries.
Unsealable(f) == f.sealed = f.seq

\* (mutant of Opened) yields the text of every chunk, empty or not
OpenedBlank(c, f) ==
    IF f.seq # c.expected \/ ~Unsealable(f) \/ (f.final /\ f.piece # Empty)
    THEN [c EXCEPT !.phase = "error"]
    ELSE [c EXCEPT !.expected = @ + 1,
                   !.final = @ \/ f.final,
                   !.text = Append(@, f.piece)]

\* (mutant of Opened) does not ask whether a final marker is empty
OpenedTrusting(c, f) ==
    IF f.seq # c.expected \/ ~Unsealable(f) THEN [c EXCEPT !.phase = "error"]
    ELSE [c EXCEPT !.expected = @ + 1,
                   !.final = @ \/ f.final,
                   !.text = IF f.piece = Empty THEN @ ELSE Append(@, f.piece)]

\* (mutant of Opened) takes the chunk's own number for the one that is due
OpenedAnywhere(c, f) ==
    IF ~Unsealable(f) \/ (f.final /\ f.piece # Empty) THEN [c EXCEPT !.phase = "error"]
    ELSE [c EXCEPT !.expected = f.seq + 1,
                   !.final = @ \/ f.final,
                   !.text = IF f.piece = Empty THEN @ ELSE Append(@, f.piece)]

\* A chunk: it must be the one that is due, open under its number, and be empty
\* if it claims to be the last.
Opened(c, f) ==
    IF f.seq # c.expected \/ ~Unsealable(f) \/ (f.final /\ f.piece # Empty)
    THEN [c EXCEPT !.phase = "error"]
    ELSE [c EXCEPT !.expected = @ + 1,
                   !.final = @ \/ f.final,
                   !.text = IF f.piece = Empty THEN @ ELSE Append(@, f.piece)]

Read ==
    /\ client.phase = "reading"
    /\ down # << >>
    /\ LET f == Head(down)
       IN client' = CASE f.kind = "chunk" -> Opened(client, f)
                      [] f.kind = "receipt" -> [client EXCEPT !.receipt = f.usage]
                      [] f.kind = "error" -> [client EXCEPT !.phase = "error"]
    /\ down' = Tail(down)
    /\ UNCHANGED <<peer, said, up, relay, bills, meddled>>

\* The stream is over: without a final marker it was truncated.
Conclude ==
    /\ client.phase = "reading"
    /\ down = << >>
    /\ relay = "ended"
    /\ client' = [client EXCEPT !.phase = IF client.final THEN "complete" ELSE "truncated"]
    /\ UNCHANGED <<peer, said, up, relay, bills, down, meddled>>

\* The client loses the connection, or its user loses patience.
Lose ==
    /\ client.phase = "reading"
    /\ client' = [client EXCEPT !.phase = "lost"]
    /\ UNCHANGED <<peer, said, up, relay, bills, down, meddled>>

\* (mutant of Stalled) reads without a timeout
StalledForever == down = << >> /\ FALSE /\ Lose

\* The client's own read timeout, or the reset of a stream that was broken off.
Stalled == down = << >> /\ relay # "ended" /\ Lose

-----------------------------------------------------------------------------
Init ==
    /\ peer = [phase |-> "asked", seq |-> 0, produced |-> 0, reported |-> NoUsage]
    /\ said = << >>
    /\ up = << >>
    /\ relay = "reading"
    /\ bills = {}
    /\ down = << >>
    /\ client = [phase |-> "reading", expected |-> 0, final |-> FALSE, text |-> << >>,
                 receipt |-> NoUsage]
    /\ meddled = 0

Next ==
    \/ Accept
    \/ \E piece \in Pieces \cup {Empty} : Say(piece)
    \/ \E usage \in [prompt : Counts, completion : Counts, finish : Reasons] : Report(usage)
    \/ Finish \/ Fail \/ Crash
    \/ Forward \/ RelayEnds \/ RelayFails \/ Excuse \/ BreakOff \/ Meddle
    \/ Read \/ Conclude \/ Lose

\* The coordinator and the client read what is there and notice an end; read
\* timeouts fire when nothing comes.
Fairness ==
    /\ WF_vars(Forward) /\ WF_vars(RelayEnds) /\ WF_vars(PeerSilent) /\ WF_vars(Excuse)
    /\ WF_vars(Read) /\ WF_vars(Conclude) /\ WF_vars(Stalled)

Spec == Init /\ [][Next]_vars

FairSpec == Spec /\ Fairness

-----------------------------------------------------------------------------
(* Properties.                                                             *)

\* Every variable keeps its type.
TypeOK ==
    /\ peer \in [phase : {"asked", "serving", "ended", "failed", "gone"},
                 seq : Nat, produced : Nat, reported : Usages]
    /\ said \in Seq(Pieces)
    /\ up \in Seq(Frames)
    /\ relay \in {"reading", "failing", "ended", "cut"}
    /\ bills \in SUBSET [prompt : Nat, completion : Nat]
    /\ down \in Seq(Frames)
    /\ client \in [phase : {"reading", "complete", "truncated", "error", "lost"},
                   expected : Nat, final : BOOLEAN, text : Seq(Pieces), receipt : Usages]
    /\ meddled \in 0..MaxMeddles

\* What the client hands to its user is always a beginning of what the engine
\* said: in order, nothing twice, nothing left out in between.
TextIsPrefix == IsPrefix(client.text, said)

\* A response the client calls complete is the whole answer, and the engine had
\* come to its end: nothing the relay or a failure does makes a short answer
\* look complete.
CompleteIsWhole ==
    client.phase = "complete" => client.text = said /\ peer.phase = "ended"

\* With a relay that keeps to the protocol, a complete answer has been billed,
\* and the client's receipt says what the ledger and the engine say: the same
\* counts, and the engine's own word for why it stopped.
CompleteIsSettled ==
    client.phase = "complete" /\ meddled = 0 =>
        /\ bills = {Billed(client.receipt)}
        /\ client.receipt.finish = peer.reported.finish

\* Only an answer that the engine finished is billed, and text is never free:
\* a count of zero means not reported.
BillIsEarned ==
    \A bill \in bills : /\ peer.phase = "ended"
                        /\ said # << >> => bill.completion > 0

\* The relay's slot comes back and the client learns the outcome, whatever
\* peer, engine and network do.
Settles == /\ relay \in {"reading", "failing"} ~> relay \in {"ended", "cut"}
           /\ client.phase = "reading" ~> client.phase # "reading"
==============================================================================
