------------------------------ MODULE StreamProofs ------------------------------
(***************************************************************************)
(* What Stream guarantees for answers of any length, any pieces and token  *)
(* counts, and any number of tampered frames.                              *)
(***************************************************************************)
EXTENDS Stream, SequenceTheorems, TLAPS

ChunkFrames == [kind : {"chunk"}, seq : Nat, sealed : Nat, piece : Nat, final : BOOLEAN]

\* What the ledger may be told of the request.
Earned(counts) == /\ peer.phase = "ended"
                  /\ said # << >> => counts.completion > 0

\* What a frame says was sealed, or reported, by the peer: the piece that has
\* its number, the empty piece behind the last one, or a receipt that is earned.
Genuine(f) ==
    /\ f.kind = "chunk" =>
          \/ f.sealed < Len(said) /\ f.piece = said[f.sealed + 1]
          \/ f.sealed = Len(said) /\ f.piece = Empty /\ peer.phase = "ended"
    /\ f.kind = "receipt" => Earned(f.usage)

GenuineFrames == {f \in Frames : Genuine(f)}

\* The peer numbers the pieces as they come, and counts their text.
Counted == /\ peer.seq = Len(said)
           /\ said # << >> => peer.produced > 0

\* The client holds the first pieces of the answer, and waits for the next one;
\* or it holds them all, and has seen the piece behind the last.
Reached(c) ==
    /\ c.text \in Seq(Pieces)
    /\ Len(c.text) <= Len(said)
    /\ \A k \in 1..Len(c.text) : c.text[k] = said[k]
    /\ \/ c.expected = Len(c.text) /\ ~ c.final
       \/ /\ c.expected = Len(said) + 1
          /\ Len(c.text) = Len(said) /\ peer.phase = "ended"

\* The inductive invariant.
IInv ==
    /\ TypeOK
    /\ up \in Seq(GenuineFrames)
    /\ down \in Seq(GenuineFrames)
    /\ \A bill \in bills : Earned(bill)
    /\ Counted
    /\ Reached(client)
    /\ client.phase = "complete" => client.final

-----------------------------------------------------------------------------
(* Frames.                                                                 *)

\* The usage that reports nothing is a usage.
LEMMA UsageTyped == NoUsage \in Usages
BY DEF NoUsage, Usages, Reasons

\* A frame is a chunk, a receipt or the error frame.
LEMMA FrameKinds ==
    ASSUME NEW f \in Frames
    PROVE  \/ f.kind = "chunk" /\ f \in ChunkFrames
           \/ f.kind = "receipt" /\ f.usage \in Usages
           \/ f.kind = "error"
BY DEF Frames, ChunkFrames, Error

\* The fields of a chunk.
LEMMA ChunkTyped ==
    ASSUME NEW f \in ChunkFrames
    PROVE  /\ f \in Frames /\ f.kind = "chunk" /\ f.seq \in Nat /\ f.sealed \in Nat
           /\ f.piece \in Nat /\ f.final \in BOOLEAN
BY DEF Frames, ChunkFrames

\* The error frame claims nothing.
LEMMA ErrorGenuine == Error \in GenuineFrames
BY DEF GenuineFrames, Genuine, Frames, Error

\* Removing an element of a sequence.
LEMMA RemoveTyped ==
    ASSUME NEW S, NEW q \in Seq(S), NEW k \in DOMAIN q
    PROVE  RemoveAt(q, k) \in Seq(S)
<1>1. SubSeq(q, 1, k - 1) \in Seq(S) /\ SubSeq(q, k + 1, Len(q)) \in Seq(S)
  BY SubSeqProperties
<1> QED
  BY <1>1, ConcatProperties DEF RemoveAt

\* Repeating an element.
LEMMA InsertTyped ==
    ASSUME NEW S, NEW q \in Seq(S), NEW k \in DOMAIN q, NEW e \in S
    PROVE  InsertAt(q, k, e) \in Seq(S)
<1>1. SubSeq(q, 1, k - 1) \in Seq(S) /\ SubSeq(q, k, Len(q)) \in Seq(S)
  BY SubSeqProperties
<1> QED
  BY <1>1 DEF InsertAt

\* Swapping neighbours.
LEMMA SwapTyped ==
    ASSUME NEW S, NEW q \in Seq(S), NEW k \in DOMAIN q, k < Len(q)
    PROVE  [q EXCEPT ![k] = q[k + 1], ![k + 1] = q[k]] \in Seq(S)
<1>1. /\ k \in 1..Len(q) /\ k + 1 \in 1..Len(q) /\ q[k] \in S /\ q[k + 1] \in S
      /\ q \in [1..Len(q) -> S] /\ Len(q) \in Nat
  BY LenProperties
<1>2. [q EXCEPT ![k] = q[k + 1], ![k + 1] = q[k]] \in [1..Len(q) -> S]
  BY <1>1
<1>3. \A n \in Nat : [1..n -> S] \subseteq Seq(S)
  BY SeqDef
<1> QED
  BY <1>1, <1>2, <1>3

-----------------------------------------------------------------------------
(* What is genuine stays genuine while the answer grows and ends.          *)

\* The answer only grows, while the peer serves; its end is final.
Grows ==
    /\ said' \in Seq(Nat)
    /\ Len(said) <= Len(said')
    /\ \A k \in 1..Len(said) : said'[k] = said[k]
    /\ peer.phase = "ended" => peer'.phase = "ended" /\ said' = said

\* A frame that was genuine before the answer grew still is.
LEMMA GenuineStays ==
    ASSUME TypeOK, Grows
    PROVE  /\ \A f \in Frames : Genuine(f) => Genuine(f)'
           /\ \A counts : Earned(counts) => Earned(counts)'
           /\ GenuineFrames \subseteq GenuineFrames'
<1>1. \A counts : Earned(counts) => Earned(counts)'
  BY DEF Earned, Grows
<1>2. ASSUME NEW f \in Frames, Genuine(f) PROVE Genuine(f)'
  <2>1. CASE f.kind = "chunk"
    <3>1. f \in ChunkFrames /\ f.sealed \in Nat /\ f.kind # "receipt"
      BY <2>1, FrameKinds, ChunkTyped
    <3>2. Len(said) \in Nat /\ Len(said') \in Nat
      BY DEF TypeOK, Grows
    <3>3. CASE f.sealed < Len(said) /\ f.piece = said[f.sealed + 1]
      <4>1. f.sealed + 1 \in 1..Len(said)
        BY <3>1, <3>2, <3>3
      <4> QED
        BY <3>1, <3>2, <3>3, <4>1 DEF Genuine, Grows
    <3>4. CASE f.sealed = Len(said) /\ f.piece = Empty /\ peer.phase = "ended"
      BY <3>1, <3>4 DEF Genuine, Grows
    <3> QED
      BY <1>2, <2>1, <3>3, <3>4 DEF Genuine
  <2>2. CASE f.kind # "chunk"
    BY <1>1, <1>2, <2>2 DEF Genuine
  <2> QED
    BY <2>1, <2>2
<1>3. GenuineFrames \subseteq GenuineFrames'
  BY <1>2 DEF GenuineFrames
<1> QED
  BY <1>1, <1>2, <1>3

\* A step that only makes the answer grow leaves the client where it is.
LEMMA ReachedStays ==
    ASSUME IInv, Grows, said' \in Seq(Pieces), client' = client
    PROVE  Reached(client)'
<1>1. /\ client.text \in Seq(Pieces) /\ Len(client.text) \in Nat
      /\ Len(said) \in Nat /\ Len(said') \in Nat
  BY DEF IInv, TypeOK, Grows, Reached
<1>2. Reached(client)
  BY DEF IInv
<1>3. /\ Len(client.text) <= Len(said')
      /\ \A k \in 1..Len(client.text) : client.text[k] = said'[k]
  BY <1>1, <1>2 DEF Reached, Grows
<1> QED
  BY <1>1, <1>2, <1>3 DEF Reached, Grows

\* A step of the peer keeps the invariant if what it sends is genuine.
LEMMA PeerKeeps ==
    ASSUME IInv, Grows, TypeOK', up' \in Seq(GenuineFrames'), Counted',
           UNCHANGED <<bills, down, client>>
    PROVE  IInv'
<1>1. TypeOK /\ down \in Seq(GenuineFrames) /\ said' \in Seq(Pieces)
  BY DEF IInv, TypeOK
<1>2. GenuineFrames \subseteq GenuineFrames' /\ \A counts : Earned(counts) => Earned(counts)'
  BY <1>1, GenuineStays
<1>3. down' \in Seq(GenuineFrames')
  BY <1>1, <1>2, SeqMonotonic
<1>4. \A bill \in bills' : Earned(bill)'
  BY <1>2 DEF IInv
<1>5. Reached(client)'
  BY <1>1, ReachedStays
<1> QED
  BY <1>3, <1>4, <1>5 DEF IInv

-----------------------------------------------------------------------------
(* The peer.                                                               *)

\* Pieces have a positive length.
LEMMA PiecesInNat == Pieces \subseteq Nat /\ 0 \notin Pieces
BY EngineTyped

\* The estimate gives at least one token to any text.
LEMMA EstimateCounts ==
    ASSUME NEW chars \in Nat
    PROVE  Estimate(chars) \in Nat /\ (chars > 0 => Estimate(chars) > 0)
BY DEF Estimate

\* A receipt of the peer: its completion count is positive when text was produced.
LEMMA TokensTyped ==
    ASSUME TypeOK
    PROVE  /\ Tokens(peer) \in Usages
           /\ peer.produced > 0 => Tokens(peer).completion > 0
<1>1. /\ peer.produced \in Nat /\ peer.reported \in Usages
      /\ PromptTokens \in Nat
  BY EngineTyped DEF TypeOK
<1>2. /\ peer.reported.prompt \in Nat /\ peer.reported.completion \in Nat
      /\ peer.reported.finish \in Reasons
  BY <1>1 DEF Usages
<1>3. Estimate(peer.produced) \in Nat
      /\ (peer.produced > 0 => Estimate(peer.produced) > 0)
  BY <1>1, EstimateCounts
<1> QED
  BY <1>1, <1>2, <1>3 DEF Tokens, Usages

\* The peer accepts the request, or refuses it.
LEMMA AcceptStep ==
    ASSUME IInv, Accept
    PROVE  IInv'
<1>1. /\ peer.phase = "asked"
      /\ UNCHANGED <<said, up, relay, bills, down, client, meddled>>
  BY DEF Accept
<1>2. PICK phase \in {"serving", "gone"} : peer' = [peer EXCEPT !.phase = phase]
  BY DEF Accept
<1>3. TypeOK
  BY DEF IInv
<1>4. /\ peer' \in [phase : {"asked", "serving", "ended", "failed", "gone"},
                     seq : Nat, produced : Nat, reported : Usages]
      /\ peer'.seq = peer.seq /\ peer'.produced = peer.produced
  BY <1>2, <1>3 DEF TypeOK
<1>5. TypeOK' /\ Counted'
  BY <1>1, <1>4 DEF IInv, TypeOK, Counted
<1>6. Grows
  <2>1. said \in Seq(Nat)
    BY <1>3, PiecesInNat, SeqMonotonic DEF TypeOK
  <2> QED
    BY <1>1, <2>1 DEF Grows
<1>7. up' \in Seq(GenuineFrames')
  BY <1>1, <1>3, <1>6, GenuineStays, SeqMonotonic DEF IInv
<1> QED
  BY <1>1, <1>5, <1>6, <1>7, PeerKeeps

\* A piece of text goes out under the number of its place in the answer.
LEMMA SayStep ==
    ASSUME IInv, NEW piece \in Pieces \cup {Empty}, Say(piece)
    PROVE  IInv'
<1> DEFINE f == Chunk(peer.seq, piece, FALSE)
<1>1. /\ peer.phase = "serving" /\ piece \in Pieces /\ said' = Append(said, piece)
      /\ peer' = [peer EXCEPT !.seq = @ + 1, !.produced = @ + piece]
      /\ up' = Append(up, f)
      /\ UNCHANGED <<relay, bills, down, client, meddled>>
  BY DEF Say, Generating
<1>2. TypeOK /\ piece \in Nat /\ piece > 0
  BY <1>1, PiecesInNat DEF IInv
<1>3. /\ said \in Seq(Pieces) /\ said' \in Seq(Pieces) /\ said' # << >>
      /\ said' \in Seq(Nat)
      /\ Len(said) \in Nat /\ Len(said') = Len(said) + 1
      /\ \A k \in 1..Len(said) : said'[k] = said[k]
      /\ said'[Len(said) + 1] = piece
  <2>1. said \in Seq(Pieces) /\ said \in Seq(Nat)
    BY <1>2, PiecesInNat, SeqMonotonic DEF TypeOK
  <2> QED
    BY <1>1, <1>2, <2>1
<1>4. Grows
  BY <1>1, <1>3 DEF Grows
<1>5. /\ peer' \in [phase : {"asked", "serving", "ended", "failed", "gone"},
                     seq : Nat, produced : Nat, reported : Usages]
      /\ peer'.phase = "serving" /\ peer'.seq = peer.seq + 1
      /\ peer'.produced = peer.produced + piece
      /\ peer.seq \in Nat /\ peer.produced \in Nat
  <2>1. peer \in [phase : {"asked", "serving", "ended", "failed", "gone"},
                  seq : Nat, produced : Nat, reported : Usages]
    BY <1>2 DEF TypeOK
  <2>2. /\ peer.seq \in Nat /\ peer.seq + 1 \in Nat /\ peer.produced \in Nat
        /\ peer.produced + piece \in Nat
    BY <1>2, <2>1
  <2>3. peer' = [peer EXCEPT !.seq = peer.seq + 1, !.produced = peer.produced + piece]
    BY <1>1
  <2> QED
    BY <1>1, <2>1, <2>2, <2>3
<1>6. Counted'
  BY <1>2, <1>3, <1>5 DEF IInv, Counted
<1>7. f \in Frames /\ f.kind = "chunk" /\ f.sealed = Len(said) /\ f.piece = piece
  <2>1. f \in ChunkFrames /\ f.kind = "chunk" /\ f.sealed = peer.seq /\ f.piece = piece
    BY <1>2, <1>5 DEF Chunk, ChunkFrames
  <2> QED
    BY <2>1, ChunkTyped DEF IInv, Counted
<1> HIDE DEF f
<1>8. f \in GenuineFrames'
  <2>1. f.sealed < Len(said') /\ f.piece = said'[f.sealed + 1] /\ f.kind # "receipt"
    BY <1>3, <1>7
  <2> QED
    BY <1>7, <2>1 DEF GenuineFrames, Genuine
<1>9. up' \in Seq(GenuineFrames')
  <2>1. up \in Seq(GenuineFrames')
    BY <1>2, <1>4, GenuineStays, SeqMonotonic DEF IInv
  <2> QED
    BY <1>1, <1>8, <2>1
<1>10. up' \in Seq(Frames)
  BY <1>1, <1>2, <1>7 DEF TypeOK
<1>11. TypeOK'
  BY <1>1, <1>2, <1>3, <1>5, <1>10 DEF TypeOK
<1> QED
  BY <1>1, <1>4, <1>6, <1>9, <1>11, PeerKeeps

\* A usage report of the engine is noted for the receipt.
LEMMA ReportStep ==
    ASSUME IInv, NEW usage \in Usages, Report(usage)
    PROVE  IInv'
<1>1. /\ peer.phase = "serving" /\ peer' = [peer EXCEPT !.reported = usage]
      /\ UNCHANGED <<said, up, relay, bills, down, client, meddled>>
  BY DEF Report, Generating
<1>2. TypeOK
  BY DEF IInv
<1>3. /\ peer' \in [phase : {"asked", "serving", "ended", "failed", "gone"},
                     seq : Nat, produced : Nat, reported : Usages]
      /\ peer'.phase = "serving" /\ peer'.seq = peer.seq /\ peer'.produced = peer.produced
  BY <1>1, <1>2 DEF TypeOK
<1>4. TypeOK' /\ Counted'
  BY <1>1, <1>3 DEF IInv, TypeOK, Counted
<1>5. Grows
  <2>1. said \in Seq(Nat)
    BY <1>2, PiecesInNat, SeqMonotonic DEF TypeOK
  <2> QED
    BY <1>1, <2>1 DEF Grows
<1>6. up' \in Seq(GenuineFrames')
  BY <1>1, <1>2, <1>5, GenuineStays, SeqMonotonic DEF IInv
<1> QED
  BY <1>1, <1>4, <1>5, <1>6, PeerKeeps

\* The end of the answer: the final marker has the number behind the last
\* piece, and the receipt is earned.
LEMMA FinishStep ==
    ASSUME IInv, Finish
    PROVE  IInv'
<1> DEFINE last == Chunk(peer.seq, Empty, TRUE)
           receipt == Receipt(Tokens(peer))
<1>1. /\ peer.phase = "serving" /\ peer' = [peer EXCEPT !.phase = "ended"]
      /\ up' = up \o <<last, receipt>>
      /\ UNCHANGED <<said, relay, bills, down, client, meddled>>
  BY DEF Finish, Generating
<1>2. TypeOK
  BY DEF IInv
<1>3. /\ peer' \in [phase : {"asked", "serving", "ended", "failed", "gone"},
                     seq : Nat, produced : Nat, reported : Usages]
      /\ peer'.phase = "ended" /\ peer'.seq = peer.seq /\ peer'.produced = peer.produced
      /\ peer.seq \in Nat
  BY <1>1, <1>2 DEF TypeOK
<1>4. Counted'
  BY <1>1, <1>3 DEF IInv, Counted
<1>5. Grows
  <2>1. said \in Seq(Nat)
    BY <1>2, PiecesInNat, SeqMonotonic DEF TypeOK
  <2> QED
    BY <1>1, <2>1 DEF Grows
<1>6. last \in Frames /\ last \in GenuineFrames'
  <2>1. last \in ChunkFrames /\ last.kind = "chunk" /\ last.sealed = peer.seq
        /\ last.piece = Empty
    BY <1>3 DEF Chunk, ChunkFrames, Empty
  <2> HIDE DEF last
  <2>2. last \in Frames /\ last.sealed = Len(said')
    BY <1>1, <2>1, ChunkTyped DEF IInv, Counted
  <2> QED
    BY <1>3, <2>1, <2>2 DEF GenuineFrames, Genuine
<1>7. receipt \in Frames /\ receipt \in GenuineFrames'
  <2>1. /\ Tokens(peer) \in Usages
        /\ said # << >> => Tokens(peer).completion > 0
    BY <1>2, TokensTyped DEF IInv, Counted
  <2>2. receipt.kind = "receipt" /\ receipt.usage = Tokens(peer) /\ receipt \in Frames
    BY <2>1 DEF Receipt, Frames
  <2> HIDE DEF receipt
  <2>3. \A counts : (said # << >> => counts.completion > 0) => Earned(counts)'
    BY <1>1, <1>3 DEF Earned
  <2>4. ASSUME NEW f \in Frames, f.kind = "receipt", said # << >> => f.usage.completion > 0
        PROVE  f \in GenuineFrames'
    <3>1. Earned(f.usage)'
      BY <2>3, <2>4
    <3> QED
      BY <2>4, <3>1 DEF GenuineFrames, Genuine
  <2> QED
    BY <2>1, <2>2, <2>4
<1> HIDE DEF last, receipt
<1>8. up' \in Seq(GenuineFrames')
  <2>1. up \in Seq(GenuineFrames')
    BY <1>2, <1>5, GenuineStays, SeqMonotonic DEF IInv
  <2>2. <<last, receipt>> \in Seq(GenuineFrames')
    BY <1>6, <1>7
  <2> QED
    BY <1>1, <2>1, <2>2, ConcatProperties
<1>9. up' \in Seq(Frames)
  BY <1>8, SeqMonotonic DEF GenuineFrames
<1>10. TypeOK'
  BY <1>1, <1>2, <1>3, <1>9 DEF TypeOK
<1> QED
  BY <1>1, <1>4, <1>5, <1>8, <1>10, PeerKeeps

\* The engine fails, or the connection does: an error frame at most.
LEMMA FailStep ==
    ASSUME IInv, Fail \/ Crash
    PROVE  IInv'
<1>1. /\ peer.phase = "serving"
      /\ up' \in {up, Append(up, Error)}
      /\ UNCHANGED <<said, relay, bills, down, client, meddled>>
  BY DEF Fail, Crash, Generating
<1>2. PICK phase \in {"failed", "gone"} : peer' = [peer EXCEPT !.phase = phase]
  BY DEF Fail, Crash
<1>3. TypeOK
  BY DEF IInv
<1>4. /\ peer' \in [phase : {"asked", "serving", "ended", "failed", "gone"},
                     seq : Nat, produced : Nat, reported : Usages]
      /\ peer'.seq = peer.seq /\ peer'.produced = peer.produced
  BY <1>2, <1>3 DEF TypeOK
<1>5. Counted'
  BY <1>1, <1>4 DEF IInv, Counted
<1>6. Grows
  <2>1. said \in Seq(Nat)
    BY <1>3, PiecesInNat, SeqMonotonic DEF TypeOK
  <2> QED
    BY <1>1, <2>1 DEF Grows
<1>7. up' \in Seq(GenuineFrames')
  <2>1. up \in Seq(GenuineFrames') /\ Error \in GenuineFrames'
    BY <1>3, <1>6, GenuineStays, SeqMonotonic, ErrorGenuine DEF IInv
  <2> QED
    BY <1>1, <2>1
<1>8. up' \in Seq(Frames)
  BY <1>7, SeqMonotonic DEF GenuineFrames
<1>9. TypeOK'
  BY <1>1, <1>3, <1>4, <1>8 DEF TypeOK
<1> QED
  BY <1>1, <1>5, <1>6, <1>7, <1>9, PeerKeeps

-----------------------------------------------------------------------------
(* The relay.                                                              *)

\* A step that leaves peer and client alone, and moves only genuine frames.
LEMMA RelayKeeps ==
    ASSUME IInv, TypeOK', UNCHANGED <<peer, said, client>>,
           up' \in Seq(GenuineFrames), down' \in Seq(GenuineFrames),
           \A bill \in bills' : Earned(bill)
    PROVE  IInv'
<1>1. GenuineFrames' = GenuineFrames
  BY DEF GenuineFrames, Genuine, Earned
<1>2. \A bill \in bills' : Earned(bill)'
  BY DEF Earned
<1>3. Counted' /\ Reached(client)'
  BY DEF IInv, Counted, Reached
<1> QED
  BY <1>1, <1>2, <1>3 DEF IInv

\* The relay bills a receipt as it passes: the peer sent it, so it is earned.
LEMMA ForwardStep ==
    ASSUME IInv, Forward
    PROVE  IInv'
<1> DEFINE frame == Head(up)
<1>1. /\ up # << >> /\ up' = Tail(up) /\ down' = Append(down, frame)
      /\ bills' = IF frame.kind = "receipt" /\ bills = {}
                  THEN {Billed(frame.usage)} ELSE bills
      /\ UNCHANGED <<peer, said, relay, client, meddled>>
  BY DEF Forward
<1>2. up \in Seq(GenuineFrames) /\ down \in Seq(GenuineFrames) /\ TypeOK
  BY DEF IInv
<1>3. frame \in GenuineFrames /\ up' \in Seq(GenuineFrames)
  BY <1>1, <1>2, HeadTailProperties
<1> HIDE DEF frame
<1>4. down' \in Seq(GenuineFrames)
  BY <1>1, <1>2, <1>3
<1>5. frame.kind = "receipt" => /\ frame.usage \in Usages
                                /\ Earned(frame.usage)
  BY <1>3, FrameKinds, ChunkTyped DEF GenuineFrames, Genuine
<1>6. frame.kind = "receipt" =>
         /\ Billed(frame.usage) \in [prompt : Nat, completion : Nat]
         /\ Earned(Billed(frame.usage))
  BY <1>5 DEF Billed, Earned, Usages
<1>7. /\ bills' \in SUBSET [prompt : Nat, completion : Nat]
      /\ \A bill \in bills' : Earned(bill)
  BY <1>1, <1>2, <1>6 DEF IInv, TypeOK
<1>8. up' \in Seq(Frames) /\ down' \in Seq(Frames)
  BY <1>3, <1>4, SeqMonotonic DEF GenuineFrames
<1>9. TypeOK'
  BY <1>1, <1>2, <1>7, <1>8 DEF TypeOK
<1> QED
  BY <1>1, <1>3, <1>4, <1>7, <1>9, RelayKeeps

\* The relay ends, fails or breaks off, and says at most that it failed.
LEMMA RelayStep ==
    ASSUME IInv, RelayEnds \/ RelayFails \/ Excuse \/ BreakOff
    PROVE  IInv'
<1>1. /\ up' \in {up, << >>} /\ down' \in {down, Append(down, Error)}
      /\ relay' \in {"ended", "failing", "cut"}
      /\ UNCHANGED <<peer, said, bills, client, meddled>>
  BY DEF RelayEnds, RelayFails, Excuse, BreakOff
<1>2. /\ up \in Seq(GenuineFrames) /\ down \in Seq(GenuineFrames) /\ TypeOK
      /\ \A bill \in bills : Earned(bill)
  BY DEF IInv
<1>3. up' \in Seq(GenuineFrames) /\ down' \in Seq(GenuineFrames)
  <2>1. << >> \in Seq(GenuineFrames)
    OBVIOUS
  <2>2. Append(down, Error) \in Seq(GenuineFrames)
    BY <1>2, ErrorGenuine
  <2> QED
    BY <1>1, <1>2, <2>1, <2>2
<1>4. up' \in Seq(Frames) /\ down' \in Seq(Frames)
  BY <1>3, SeqMonotonic DEF GenuineFrames
<1>5. TypeOK'
  BY <1>1, <1>2, <1>4 DEF TypeOK
<1> QED
  BY <1>1, <1>2, <1>3, <1>5, RelayKeeps

\* Numbering a chunk differently, or touching its final bit, leaves what was
\* sealed as it is.
LEMMA RemarkGenuine ==
    ASSUME NEW f \in GenuineFrames, f.kind = "chunk", NEW n \in Nat, NEW b \in BOOLEAN
    PROVE  /\ [f EXCEPT !.final = b] \in GenuineFrames
           /\ [f EXCEPT !.seq = n] \in GenuineFrames
<1>1. f \in ChunkFrames /\ Genuine(f)
  BY FrameKinds DEF GenuineFrames
<1>2. ASSUME NEW g \in ChunkFrames, g.sealed = f.sealed, g.piece = f.piece
      PROVE  g \in GenuineFrames
  BY <1>1, <1>2, ChunkTyped DEF GenuineFrames, Genuine
<1>3. /\ [f EXCEPT !.final = b] \in ChunkFrames /\ [f EXCEPT !.seq = n] \in ChunkFrames
      /\ [f EXCEPT !.final = b].sealed = f.sealed /\ [f EXCEPT !.final = b].piece = f.piece
      /\ [f EXCEPT !.seq = n].sealed = f.sealed /\ [f EXCEPT !.seq = n].piece = f.piece
  BY <1>1 DEF ChunkFrames
<1> QED
  BY <1>2, <1>3

\* Whatever the relay alters, it cannot seal: the frames stay genuine.
LEMMA MeddleStep ==
    ASSUME IInv, Meddle
    PROVE  IInv'
<1>1. /\ meddled < MaxMeddles /\ meddled' = meddled + 1
      /\ UNCHANGED <<peer, said, bills, client>>
  BY DEF Meddle
<1>2. /\ up \in Seq(GenuineFrames) /\ down \in Seq(GenuineFrames) /\ TypeOK
      /\ \A bill \in bills : Earned(bill)
  BY DEF IInv
<1>3. meddled' \in 0..MaxMeddles
  BY <1>1, <1>2, BoundsTyped DEF TypeOK
<1>4. down' \in Seq(GenuineFrames)
  <2>1. CASE down' = down
    BY <1>2, <2>1
  <2>2. ASSUME NEW k \in DOMAIN down, down' = RemoveAt(down, k)
        PROVE  down' \in Seq(GenuineFrames)
    BY <1>2, <2>2, RemoveTyped
  <2>3. ASSUME NEW k \in DOMAIN down, down' = InsertAt(down, k, down[k])
        PROVE  down' \in Seq(GenuineFrames)
    <3>1. down[k] \in GenuineFrames
      BY <1>2, LenProperties, ElementOfSeq
    <3> QED
      BY <1>2, <2>3, <3>1, InsertTyped
  <2>4. ASSUME NEW k \in DOMAIN down, k < Len(down),
               down' = [down EXCEPT ![k] = down[k + 1], ![k + 1] = down[k]]
        PROVE  down' \in Seq(GenuineFrames)
    BY <1>2, <2>4, SwapTyped
  <2>5. ASSUME NEW k \in DOMAIN down, down[k].kind = "chunk",
               down' = [down EXCEPT ![k].final = ~ @]
        PROVE  down' \in Seq(GenuineFrames)
    <3> DEFINE b == ~ down[k].final
    <3>1. k \in 1..Len(down) /\ down[k] \in GenuineFrames
      BY <1>2, LenProperties, ElementOfSeq
    <3>2. b \in BOOLEAN
      OBVIOUS
    <3>3. down' = [down EXCEPT ![k] = [down[k] EXCEPT !.final = b]]
      BY <2>5
    <3> HIDE DEF b
    <3>4. [down[k] EXCEPT !.final = b] \in GenuineFrames
      BY <2>5, <3>1, <3>2, RemarkGenuine
    <3> QED
      BY <1>2, <3>1, <3>3, <3>4, ExceptSeq
  <2>6. ASSUME NEW k \in DOMAIN down, down[k].kind = "chunk", NEW n \in 0..MaxPieces,
               down' = [down EXCEPT ![k].seq = n]
        PROVE  down' \in Seq(GenuineFrames)
    <3>1. k \in 1..Len(down) /\ down[k] \in GenuineFrames
      BY <1>2, LenProperties, ElementOfSeq
    <3>2. n \in Nat
      BY BoundsTyped
    <3>3. [down[k] EXCEPT !.seq = n] \in GenuineFrames
      BY <2>6, <3>1, <3>2, RemarkGenuine
    <3>4. down' = [down EXCEPT ![k] = [down[k] EXCEPT !.seq = n]]
      BY <2>6
    <3> QED
      BY <1>2, <3>1, <3>3, <3>4, ExceptSeq
  <2> QED
    BY <2>1, <2>2, <2>3, <2>4, <2>5, <2>6 DEF Meddle
<1>5. up' \in Seq(GenuineFrames) /\ relay' \in {"reading", "failing", "ended", "cut"}
  <2>1. << >> \in Seq(GenuineFrames)
    OBVIOUS
  <2>2. up' \in {up, << >>} /\ relay' \in {relay, "ended"}
    BY DEF Meddle
  <2> QED
    BY <1>2, <2>1, <2>2 DEF TypeOK
<1>6. up' \in Seq(Frames) /\ down' \in Seq(Frames)
  BY <1>4, <1>5, SeqMonotonic DEF GenuineFrames
<1>7. TypeOK'
  BY <1>1, <1>2, <1>3, <1>5, <1>6 DEF TypeOK
<1> QED
  BY <1>1, <1>2, <1>4, <1>5, <1>7, RelayKeeps
-----------------------------------------------------------------------------
(* The client.                                                             *)

Clients == [phase : {"reading", "complete", "truncated", "error", "lost"},
            expected : Nat, final : BOOLEAN, text : Seq(Pieces), receipt : Usages]

\* A step that only the client takes, and that takes only genuine frames away.
LEMMA ClientKeeps ==
    ASSUME IInv, client' \in Clients, down' \in Seq(GenuineFrames),
           UNCHANGED <<peer, said, up, relay, bills, meddled>>,
           Reached(client'), client'.phase = "complete" => client'.final
    PROVE  IInv'
<1>1. GenuineFrames' = GenuineFrames
  BY DEF GenuineFrames, Genuine, Earned
<1>2. down' \in Seq(Frames)
  BY SeqMonotonic DEF GenuineFrames
<1>3. TypeOK'
  BY <1>2 DEF IInv, TypeOK, Clients
<1>4. Counted' /\ \A bill \in bills' : Earned(bill)'
  BY DEF IInv, Counted, Earned
<1>5. Reached(client)'
  BY DEF Reached
<1> QED
  BY <1>1, <1>3, <1>4, <1>5 DEF IInv

\* The client's phase alone says nothing about what it has read.
LEMMA PhaseStep ==
    ASSUME IInv, NEW phase \in {"complete", "truncated", "error", "lost"},
           client' = [client EXCEPT !.phase = phase],
           phase = "complete" => client.final,
           down' \in Seq(GenuineFrames),
           UNCHANGED <<peer, said, up, relay, bills, meddled>>
    PROVE  IInv'
<1>1. client \in Clients /\ Reached(client)
  BY DEF IInv, TypeOK, Clients
<1>2. /\ client' \in Clients /\ client'.phase = phase
      /\ client'.text = client.text /\ client'.final = client.final
      /\ client'.expected = client.expected
  BY <1>1 DEF Clients
<1>3. Reached(client')
  BY <1>1, <1>2 DEF Reached
<1> QED
  BY <1>2, <1>3, ClientKeeps

Updated(c, expected, final, text) ==
    [c EXCEPT !.expected = expected, !.final = final, !.text = text]

\* The client's state after a chunk it took.
LEMMA ClientUpdated ==
    ASSUME NEW c \in Clients, NEW expected \in Nat, NEW final \in BOOLEAN,
           NEW text \in Seq(Pieces)
    PROVE  /\ Updated(c, expected, final, text) \in Clients
           /\ Updated(c, expected, final, text).phase = c.phase
           /\ Updated(c, expected, final, text).expected = expected
           /\ Updated(c, expected, final, text).final = final
           /\ Updated(c, expected, final, text).text = text
<1> DEFINE d == [c EXCEPT !.expected = expected, !.final = final, !.text = text]
<1> DEFINE texts == Seq(Pieces)
<1>1. text \in texts
  OBVIOUS
<1>2. c \in [phase : {"reading", "complete", "truncated", "error", "lost"},
             expected : Nat, final : BOOLEAN, text : texts, receipt : Usages]
  BY DEF Clients
<1> HIDE DEF texts
<1>3. d \in [phase : {"reading", "complete", "truncated", "error", "lost"},
             expected : Nat, final : BOOLEAN, text : texts, receipt : Usages]
      /\ d.phase = c.phase /\ d.expected = expected /\ d.text = text
  BY <1>1, <1>2
<1>4. d.final = final
  BY <1>2
<1> QED
  BY <1>3, <1>4 DEF Clients, texts, Updated

\* The chunk that is due, opened: either the next piece of the answer, which is
\* not empty and so cannot pass for the last, or the piece behind the last one.
LEMMA OpenedReaches ==
    ASSUME IInv, NEW f \in GenuineFrames, f.kind = "chunk",
           f.seq = client.expected, f.sealed = f.seq, f.final => f.piece = Empty,
           client' = Opened(client, f)
    PROVE  /\ client' \in Clients /\ client'.phase = client.phase
           /\ Reached(client')
<1>1. /\ client \in Clients /\ Reached(client) /\ said \in Seq(Pieces)
      /\ f \in Frames /\ Genuine(f)
  BY DEF IInv, TypeOK, Clients, GenuineFrames
<1>2. /\ f.sealed \in Nat /\ f.piece \in Nat /\ f.final \in BOOLEAN
  BY <1>1, FrameKinds, ChunkTyped
<1>3. /\ client.text \in Seq(Pieces) /\ client.expected \in Nat
      /\ client.final \in BOOLEAN /\ Len(client.text) \in Nat /\ Len(said) \in Nat
  BY <1>1 DEF Clients
<1> DEFINE final == client.final \/ f.final
           text == IF f.piece = Empty THEN client.text ELSE Append(client.text, f.piece)
<1>4. client' = [client EXCEPT !.expected = client.expected + 1, !.final = final,
                               !.text = text]
  BY DEF Opened, Unsealable
<1>5. final \in BOOLEAN /\ client.expected + 1 \in Nat
  BY <1>2, <1>3
<1>6. \/ /\ f.sealed < Len(said) /\ f.piece = said[f.sealed + 1]
      \/ /\ f.sealed = Len(said) /\ f.piece = Empty /\ peer.phase = "ended"
  BY <1>1 DEF Genuine
<1>7. client.expected = Len(client.text) /\ ~ client.final
  BY <1>1, <1>2, <1>3, <1>6 DEF Reached
<1>8. CASE f.sealed < Len(said) /\ f.piece = said[f.sealed + 1]
  <2>1. f.sealed + 1 \in 1..Len(said)
    BY <1>2, <1>3, <1>8
  <2>2. f.piece \in Pieces /\ f.piece # Empty
    BY <1>1, <1>8, <2>1, ElementOfSeq, PiecesInNat DEF Empty
  <2>3. text = Append(client.text, f.piece) /\ final = FALSE
    BY <1>7, <2>2
  <2>4. /\ text \in Seq(Pieces) /\ Len(text) = Len(client.text) + 1
        /\ \A k \in 1..Len(client.text) : text[k] = client.text[k]
        /\ text[Len(client.text) + 1] = f.piece
    BY <1>3, <2>2, <2>3
  <2> HIDE DEF text, final
  <2>5. /\ client' \in Clients /\ client'.phase = client.phase
        /\ client'.text = text /\ client'.final = FALSE
        /\ client'.expected = client.expected + 1
    <3> DEFINE expected == client.expected + 1
    <3>1. client \in Clients /\ expected \in Nat /\ final \in BOOLEAN
      BY <1>1, <1>5
    <3>2. client' = Updated(client, expected, final, text)
      BY <1>4 DEF Updated
    <3> HIDE DEF expected
    <3>3. /\ client' \in Clients /\ client'.phase = client.phase
          /\ client'.text = text /\ client'.final = final /\ client'.expected = expected
      BY <2>4, <3>1, <3>2, ClientUpdated
    <3> QED
      BY <2>3, <3>3 DEF expected
  <2>6. Len(text) <= Len(said) /\ \A k \in 1..Len(text) : text[k] = said[k]
    BY <1>1, <1>3, <1>7, <1>8, <2>4 DEF Reached
  <2>7. client'.expected = Len(text)
    BY <1>7, <2>4, <2>5
  <2> QED
    BY <2>4, <2>5, <2>6, <2>7 DEF Reached
<1>9. CASE f.sealed = Len(said) /\ f.piece = Empty /\ peer.phase = "ended"
  <2>1. text = client.text /\ text \in Seq(Pieces)
    BY <1>3, <1>9
  <2> HIDE DEF text, final
  <2>2. /\ client' \in Clients /\ client'.phase = client.phase
        /\ client'.text = client.text
        /\ client'.expected = client.expected + 1
    <3> DEFINE expected == client.expected + 1
    <3>1. client \in Clients /\ expected \in Nat /\ final \in BOOLEAN
      BY <1>1, <1>5
    <3>2. client' = Updated(client, expected, final, text)
      BY <1>4 DEF Updated
    <3> HIDE DEF expected
    <3>3. /\ client' \in Clients /\ client'.phase = client.phase
          /\ client'.text = text /\ client'.expected = expected
      BY <2>1, <3>1, <3>2, ClientUpdated
    <3> QED
      BY <2>1, <3>3 DEF expected
  <2>3. client'.expected = Len(said) + 1 /\ Len(client.text) = Len(said)
    BY <1>7, <1>9, <2>2
  <2> QED
    BY <1>1, <1>9, <2>2, <2>3 DEF Reached
<1> QED
  BY <1>6, <1>8, <1>9

\* The client reads a frame.
LEMMA ReadStep ==
    ASSUME IInv, Read
    PROVE  IInv'
<1> DEFINE f == Head(down)
<1>1. /\ client.phase = "reading" /\ down # << >> /\ down' = Tail(down)
      /\ client' = CASE f.kind = "chunk" -> Opened(client, f)
                     [] f.kind = "receipt" -> [client EXCEPT !.receipt = f.usage]
                     [] f.kind = "error" -> [client EXCEPT !.phase = "error"]
      /\ UNCHANGED <<peer, said, up, relay, bills, meddled>>
  BY DEF Read
<1>2. down \in Seq(GenuineFrames) /\ client \in Clients /\ Reached(client)
  BY DEF IInv, TypeOK, Clients
<1>3. f \in GenuineFrames /\ down' \in Seq(GenuineFrames)
  BY <1>1, <1>2, HeadTailProperties
<1> HIDE DEF f
<1>4. CASE f.kind = "chunk"
  <2>1. client' = Opened(client, f)
    BY <1>1, <1>4
  <2>2. CASE f.seq # client.expected \/ f.sealed # f.seq \/ (f.final /\ f.piece # Empty)
    <3>1. client' = [client EXCEPT !.phase = "error"]
      BY <2>1, <2>2 DEF Opened, Unsealable
    <3> QED
      BY <1>1, <1>3, <3>1, PhaseStep
  <2>3. CASE ~ (f.seq # client.expected \/ f.sealed # f.seq \/ (f.final /\ f.piece # Empty))
    <3>1. /\ client' \in Clients /\ client'.phase = client.phase
          /\ Reached(client')
      BY <1>3, <1>4, <2>1, <2>3, OpenedReaches
    <3> QED
      BY <1>1, <1>3, <3>1, ClientKeeps
  <2> QED
    BY <2>2, <2>3
<1>5. CASE f.kind = "receipt"
  <2>1. client' = [client EXCEPT !.receipt = f.usage] /\ f.usage \in Usages
    BY <1>1, <1>3, <1>5, FrameKinds DEF GenuineFrames
  <2>2. /\ client' \in Clients /\ client'.phase = client.phase
        /\ client'.text = client.text /\ client'.final = client.final
        /\ client'.expected = client.expected
    BY <1>2, <2>1 DEF Clients
  <2>3. Reached(client')
    BY <1>2, <2>2 DEF Reached
  <2> QED
    BY <1>1, <1>3, <2>2, <2>3, ClientKeeps
<1>6. CASE f.kind = "error"
  <2>1. client' = [client EXCEPT !.phase = "error"]
    BY <1>1, <1>6
  <2> QED
    BY <1>1, <1>3, <2>1, PhaseStep
<1> QED
  BY <1>3, <1>4, <1>5, <1>6, FrameKinds DEF GenuineFrames

\* The client concludes from the end of the stream, or gives up.
LEMMA ConcludeStep ==
    ASSUME IInv, Conclude \/ Lose
    PROVE  IInv'
<1>1. UNCHANGED <<peer, said, up, relay, bills, down, meddled>>
  BY DEF Conclude, Lose
<1>2. PICK phase \in {"complete", "truncated", "error", "lost"} :
         /\ client' = [client EXCEPT !.phase = phase]
         /\ phase = "complete" => client.final
  BY DEF Conclude, Lose
<1>3. down' \in Seq(GenuineFrames)
  BY <1>1 DEF IInv
<1> QED
  BY <1>1, <1>2, <1>3, PhaseStep

-----------------------------------------------------------------------------
(* The theorems.                                                           *)

\* Nothing was said, sent or read.
LEMMA InitHolds ==
    ASSUME Init
    PROVE  IInv
<1>1. /\ up = << >> /\ down = << >> /\ said = << >> /\ bills = {}
      /\ peer.seq = 0 /\ client.phase = "reading"
      /\ client.text = << >> /\ client.expected = 0 /\ client.final = FALSE
  BY DEF Init
<1>2. << >> \in Seq(GenuineFrames)
  OBVIOUS
<1>3. << >> \in Seq(Frames)
  OBVIOUS
<1>4. << >> \in Seq(Pieces) /\ Len(<< >>) = 0
  OBVIOUS
<1>5. TypeOK
  BY <1>1, <1>3, <1>4, UsageTyped, BoundsTyped DEF Init, TypeOK
<1>6. Counted /\ Reached(client)
  BY <1>1, <1>4 DEF Counted, Reached
<1> QED
  BY <1>1, <1>2, <1>5, <1>6 DEF IInv

\* Every step of engine, peer, relay and client keeps the invariant.
LEMMA StepHolds ==
    ASSUME IInv, [Next]_vars
    PROVE  IInv'
<1>1. CASE UNCHANGED vars
  <2>1. UNCHANGED <<peer, said, up, relay, bills, down, client, meddled>>
    BY <1>1 DEF vars
  <2>2. TypeOK' /\ up' \in Seq(GenuineFrames) /\ down' \in Seq(GenuineFrames)
    BY <2>1 DEF IInv, TypeOK
  <2> QED
    BY <2>1, <2>2, RelayKeeps DEF IInv
<1>2. ASSUME NEW usage \in [prompt : Counts, completion : Counts, finish : Reasons],
             Report(usage)
      PROVE  IInv'
  <2>1. usage \in Usages
    BY EngineTyped DEF Usages
  <2> QED
    BY <1>2, <2>1, ReportStep
<1> QED
  BY <1>1, <1>2, AcceptStep, SayStep, FinishStep, FailStep, ForwardStep, RelayStep,
     MeddleStep, ReadStep, ConcludeStep DEF Next

\* Every frame on its way says what the peer sealed, the client holds the first
\* pieces of the answer and waits for the next, and whatever is billed is earned.
THEOREM Invariance == Spec => []IInv
BY InitHolds, StepHolds, PTL DEF Spec

\* The state of peer, relay, ledger and client is always of its type.
THEOREM TypeCorrect == Spec => []TypeOK
<1>1. IInv => TypeOK
  BY DEF IInv
<1> QED
  BY <1>1, Invariance, PTL

\* The ledger never charges an answer that the engine did not finish, nor text
\* at no tokens, however long the answer and whatever the engine reports.
THEOREM BilledIsEarned == Spec => []BillIsEarned
<1>1. IInv => BillIsEarned
  BY DEF IInv, BillIsEarned, Earned
<1> QED
  BY <1>1, Invariance, PTL

\* However often the relay drops, repeats, swaps or renumbers frames, the client
\* has only handed out the beginning of the answer.
THEOREM TextPrefix == Spec => []TextIsPrefix
<1>1. ASSUME IInv PROVE TextIsPrefix
  <2>1. /\ client.text \in Seq(Pieces) /\ said \in Seq(Pieces)
        /\ Len(client.text) <= Len(said)
        /\ \A k \in 1..Len(client.text) : client.text[k] = said[k]
    BY <1>1 DEF IInv, TypeOK, Reached
  <2>2. Len(client.text) \in Nat /\ Len(said) \in Nat
    BY <2>1
  <2>3. client.text = SubSeq(said, 1, Len(client.text))
    <3>1. /\ SubSeq(said, 1, Len(client.text)) \in Seq(Pieces)
          /\ Len(SubSeq(said, 1, Len(client.text))) = Len(client.text)
          /\ \A k \in 1..Len(client.text) :
                SubSeq(said, 1, Len(client.text))[k] = said[k]
      BY <2>1, <2>2, SubSeqProperties
    <3> QED
      BY <2>1, <3>1, SeqEqual
  <2> QED
    BY <2>1, <2>3 DEF TextIsPrefix, IsPrefix
<1> QED
  BY <1>1, Invariance, PTL

\* No number of tampered frames, and no failure, makes a short answer look
\* complete.
THEOREM CompleteWhole == Spec => []CompleteIsWhole
<1>1. ASSUME IInv PROVE CompleteIsWhole
  <2>1. /\ client.text \in Seq(Pieces) /\ said \in Seq(Pieces)
        /\ \A k \in 1..Len(client.text) : client.text[k] = said[k]
    BY <1>1 DEF IInv, TypeOK, Reached
  <2>2. client.phase = "complete" =>
           Len(client.text) = Len(said) /\ peer.phase = "ended"
    BY <1>1 DEF IInv, Reached
  <2> QED
    BY <2>1, <2>2, SeqEqual DEF CompleteIsWhole
<1> QED
  BY <1>1, Invariance, PTL
-----------------------------------------------------------------------------
(* With a relay that keeps to the protocol, the final marker brings the    *)
(* receipt with it.                                                        *)

\* The marker behind the last piece.
Marker(f) == f.kind = "chunk" /\ f.final

\* What only a peer that has ended may send, and with which counts.
Honest(p, f) ==
    /\ Marker(f) => p.phase = "ended"
    /\ f.kind = "receipt" => p.phase = "ended" /\ f.usage = Tokens(p)

\* Behind the client's k-th next frame comes the receipt, or the receipt is lost and an
\* error frame comes in its place, or the stream breaks off.
Followed(k) ==
    IF k < Len(down) THEN down[k + 1].kind \in {"receipt", "error"}
    ELSE relay \in {"failing", "cut"} \/ (up # << >> /\ up[1].kind = "receipt")

\* The client has the receipt, and the ledger has it too.
Accounted == client.receipt = Tokens(peer) /\ bills # {}

Plain ==
    /\ \A k \in DOMAIN up : Honest(peer, up[k])
    /\ \A k \in DOMAIN down : Honest(peer, down[k])
    /\ \A k \in DOMAIN up : Marker(up[k]) => k + 1 = Len(up) /\ up[k + 1].kind = "receipt"
    /\ \A k \in DOMAIN down : Marker(down[k]) => Followed(k)
    /\ client.phase = "reading" /\ client.final => Followed(0) \/ Accounted
    /\ client.phase = "complete" => Accounted
    /\ \A bill \in bills : bill = Billed(Tokens(peer))
    /\ \A k \in DOMAIN down : down[k].kind = "receipt" => bills # {}

\* The inductive invariant.
SInv ==
    /\ IInv
    /\ relay # "reading" => up = << >>
    /\ meddled = 0 => Plain

\* The frames of a sequence are frames.
LEMMA FramesTyped ==
    ASSUME IInv
    PROVE  /\ up \in Seq(Frames) /\ DOMAIN up = 1..Len(up) /\ Len(up) \in Nat
           /\ down \in Seq(Frames) /\ DOMAIN down = 1..Len(down) /\ Len(down) \in Nat
           /\ \A k \in DOMAIN up : up[k] \in Frames
           /\ \A k \in DOMAIN down : down[k] \in Frames
BY DEF IInv, TypeOK

\* Until the peer has ended, nothing says that it has: no marker, no receipt, no bill.
LEMMA Underway ==
    ASSUME IInv, Plain, peer.phase # "ended"
    PROVE  /\ \A k \in DOMAIN up : ~ Marker(up[k]) /\ up[k].kind # "receipt"
           /\ \A k \in DOMAIN down : ~ Marker(down[k]) /\ down[k].kind # "receipt"
           /\ ~ client.final /\ client.phase # "complete" /\ bills = {}
<1>1. /\ \A k \in DOMAIN up : ~ Marker(up[k]) /\ up[k].kind # "receipt"
      /\ \A k \in DOMAIN down : ~ Marker(down[k]) /\ down[k].kind # "receipt"
  BY DEF Plain, Honest
<1>2. Reached(client) /\ (client.phase = "complete" => client.final)
  BY DEF IInv
<1>3. ~ client.final
  BY <1>2 DEF Reached
<1>4. bills = {}
  BY DEF IInv, Earned
<1> QED
  BY <1>1, <1>2, <1>3, <1>4

\* Whatever the peer does before its end sends neither marker nor receipt.
LEMMA BeforeTheEnd ==
    ASSUME IInv, Plain, peer.phase # "ended", UNCHANGED <<bills, down, client>>,
           \A k \in DOMAIN up' : ~ Marker(up'[k]) /\ up'[k].kind # "receipt"
    PROVE  Plain'
<1>1. /\ \A k \in DOMAIN down : ~ Marker(down[k]) /\ down[k].kind # "receipt"
      /\ ~ client.final /\ client.phase # "complete" /\ bills = {}
  BY Underway
<1>2. /\ \A k \in DOMAIN up' : Honest(peer', up'[k])
      /\ \A k \in DOMAIN down' : Honest(peer', down'[k])
  BY <1>1 DEF Honest, Marker
<1>3. /\ \A k \in DOMAIN up' : ~ Marker(up'[k])
      /\ \A k \in DOMAIN down' : ~ Marker(down'[k])
      /\ \A k \in DOMAIN down' : down'[k].kind # "receipt"
  BY <1>1 DEF Marker
<1>4. ~ client'.final /\ client'.phase # "complete" /\ bills' = {}
  BY <1>1
<1> QED
  BY <1>2, <1>3, <1>4 DEF Plain

\* The peer accepts, speaks, reports, fails or breaks down.
LEMMA PeerPlain ==
    ASSUME IInv, Plain,
           \/ Accept \/ Fail \/ Crash
           \/ \E piece \in Pieces \cup {Empty} : Say(piece)
           \/ \E usage \in [prompt : Counts, completion : Counts, finish : Reasons] :
                 Report(usage)
    PROVE  Plain'
<1>1. /\ peer.phase \in {"asked", "serving"} /\ UNCHANGED <<bills, down, client>>
      /\ \/ up' = up
         \/ up' = Append(up, Error)
         \/ \E piece \in Pieces : up' = Append(up, Chunk(peer.seq, piece, FALSE))
  BY DEF Accept, Fail, Crash, Say, Report, Generating
<1>2. \A k \in DOMAIN up : ~ Marker(up[k]) /\ up[k].kind # "receipt"
  BY <1>1, Underway
<1>3. ASSUME NEW f \in Frames, up' = Append(up, f), ~ Marker(f), f.kind # "receipt",
             NEW k \in DOMAIN up'
      PROVE  ~ Marker(up'[k]) /\ up'[k].kind # "receipt"
  <2>1. /\ up'[Len(up) + 1] = f /\ \A j \in DOMAIN up : up'[j] = up[j]
        /\ DOMAIN up' = 1..(Len(up) + 1) /\ Len(up) \in Nat /\ DOMAIN up = 1..Len(up)
    BY <1>3, FramesTyped
  <2>2. k \in DOMAIN up \/ k = Len(up) + 1
    BY <2>1
  <2> QED
    BY <1>2, <1>3, <2>1, <2>2
<1>4. Error \in Frames /\ ~ Marker(Error) /\ Error.kind # "receipt"
  BY DEF Frames, Error, Marker
<1>5. ASSUME NEW piece \in Pieces
      PROVE  /\ Chunk(peer.seq, piece, FALSE) \in Frames
             /\ ~ Marker(Chunk(peer.seq, piece, FALSE))
             /\ Chunk(peer.seq, piece, FALSE).kind # "receipt"
  <2>1. peer.seq \in Nat /\ piece \in Nat
    BY <1>5, PiecesInNat DEF IInv, TypeOK
  <2>2. Chunk(peer.seq, piece, FALSE) \in ChunkFrames
    BY <2>1 DEF Chunk, ChunkFrames
  <2>3. /\ Chunk(peer.seq, piece, FALSE).kind = "chunk"
        /\ Chunk(peer.seq, piece, FALSE).final = FALSE
    BY DEF Chunk
  <2> QED
    BY <2>2, <2>3, ChunkTyped DEF Marker
<1>6. \A k \in DOMAIN up' : ~ Marker(up'[k]) /\ up'[k].kind # "receipt"
  <2>1. CASE up' = up
    BY <1>2, <2>1
  <2>2. CASE up' = Append(up, Error)
    BY <1>3, <1>4, <2>2
  <2>3. CASE \E piece \in Pieces : up' = Append(up, Chunk(peer.seq, piece, FALSE))
    BY <1>3, <1>5, <2>3
  <2> QED
    BY <1>1, <2>1, <2>2, <2>3
<1>7. peer.phase # "ended"
  BY <1>1
<1> QED
  BY <1>1, <1>6, <1>7, BeforeTheEnd

\* The peer ends: the marker goes out with the receipt behind it.
LEMMA FinishPlain ==
    ASSUME IInv, Plain, Finish
    PROVE  Plain'
<1> DEFINE last == Chunk(peer.seq, Empty, TRUE)
           receipt == Receipt(Tokens(peer))
<1>1. /\ peer.phase = "serving" /\ peer' = [peer EXCEPT !.phase = "ended"]
      /\ up' = up \o <<last, receipt>> /\ UNCHANGED <<said, bills, down, client>>
  BY DEF Finish, Generating
<1>2. /\ \A k \in DOMAIN up : ~ Marker(up[k]) /\ up[k].kind # "receipt"
      /\ \A k \in DOMAIN down : ~ Marker(down[k]) /\ down[k].kind # "receipt"
      /\ ~ client.final /\ client.phase # "complete" /\ bills = {}
  BY <1>1, Underway
<1>3. peer'.phase = "ended" /\ Tokens(peer') = Tokens(peer)
  <2>1. /\ peer'.phase = "ended" /\ peer'.reported = peer.reported
        /\ peer'.produced = peer.produced
    BY <1>1 DEF IInv, TypeOK
  <2> QED
    BY <2>1 DEF Tokens
<1>4. last.kind = "chunk" /\ receipt.kind = "receipt" /\ receipt.usage = Tokens(peer)
  BY DEF Chunk, Receipt
<1> HIDE DEF last, receipt
<1>5. /\ \A k \in DOMAIN up : up'[k] = up[k]
      /\ up'[Len(up) + 1] = last /\ up'[Len(up) + 2] = receipt
      /\ Len(up') = Len(up) + 2 /\ DOMAIN up' = 1..(Len(up) + 2)
      /\ DOMAIN up = 1..Len(up) /\ Len(up) \in Nat
  <2>1. <<last, receipt>> \in Seq({last, receipt}) /\ Len(<<last, receipt>>) = 2
    OBVIOUS
  <2> QED
    BY <1>1, <2>1, FramesTyped
<1>6. \A k \in DOMAIN up' : k \in DOMAIN up \/ k = Len(up) + 1 \/ k = Len(up) + 2
  BY <1>5
<1>7. \A k \in DOMAIN up' : Honest(peer', up'[k])
  <2>1. Honest(peer', last) /\ Honest(peer', receipt)
    BY <1>3, <1>4 DEF Honest, Marker
  <2>2. \A f : ~ Marker(f) /\ f.kind # "receipt" => Honest(peer', f)
    BY DEF Honest, Marker
  <2> QED
    BY <1>2, <1>5, <1>6, <2>1, <2>2
<1>8. \A k \in DOMAIN down' : Honest(peer', down'[k]) /\ ~ Marker(down[k])'
                              /\ down'[k].kind # "receipt"
  BY <1>1, <1>2 DEF Honest, Marker
<1>9. \A k \in DOMAIN up' : Marker(up'[k]) => k + 1 = Len(up') /\ up'[k + 1].kind = "receipt"
  <2>1. ~ Marker(receipt) /\ (Len(up) + 1) + 1 = Len(up) + 2
    BY <1>4, <1>5 DEF Marker
  <2> QED
    BY <1>2, <1>4, <1>5, <1>6, <2>1
<1>10. ~ client'.final /\ client'.phase # "complete" /\ bills' = {}
  BY <1>1, <1>2
<1> QED
  BY <1>7, <1>8, <1>9, <1>10 DEF Plain, Marker

\* Forwarding a frame only moves it from one sequence to the other.
LEMMA ForwardPlain ==
    ASSUME IInv, Plain, Forward
    PROVE  Plain'
<1> DEFINE frame == Head(up)
<1>1. /\ relay = "reading" /\ up # << >> /\ up' = Tail(up) /\ down' = Append(down, frame)
      /\ bills' = IF frame.kind = "receipt" /\ bills = {}
                  THEN {Billed(frame.usage)} ELSE bills
      /\ UNCHANGED <<peer, said, relay, client>>
  BY DEF Forward
<1>2. /\ frame = up[1] /\ 1 \in DOMAIN up /\ frame \in Frames
      /\ Len(up') = Len(up) - 1 /\ DOMAIN up' = 1..(Len(up) - 1)
      /\ \A k \in 1..(Len(up) - 1) : up'[k] = up[k + 1]
      /\ DOMAIN up = 1..Len(up) /\ Len(up) \in Nat /\ Len(up) > 0
  BY <1>1, FramesTyped
<1> HIDE DEF frame
<1>3. /\ down'[Len(down) + 1] = frame /\ \A k \in DOMAIN down : down'[k] = down[k]
      /\ Len(down') = Len(down) + 1 /\ DOMAIN down' = 1..(Len(down) + 1)
      /\ DOMAIN down = 1..Len(down) /\ Len(down) \in Nat
  BY <1>1, <1>2, FramesTyped
<1>4. \A k \in DOMAIN up' : k + 1 \in DOMAIN up /\ up'[k] = up[k + 1]
  BY <1>2
<1>5. \A k \in DOMAIN down' : k \in DOMAIN down \/ k = Len(down) + 1
  BY <1>3
<1>6. Honest(peer, frame) /\ \A f : Honest(peer', f) <=> Honest(peer, f)
  BY <1>1, <1>2 DEF Plain, Honest
<1>7. \A k \in DOMAIN up' : Honest(peer', up'[k])
  BY <1>4, <1>6 DEF Plain
<1>8. \A k \in DOMAIN down' : Honest(peer', down'[k])
  BY <1>3, <1>5, <1>6 DEF Plain
<1>9. ASSUME NEW k \in DOMAIN up', Marker(up'[k])
      PROVE  k + 1 = Len(up') /\ up'[k + 1].kind = "receipt"
  <2>1. (k + 1) + 1 = Len(up) /\ up[(k + 1) + 1].kind = "receipt"
    BY <1>4, <1>9 DEF Plain
  <2>2. k + 1 \in 1..(Len(up) - 1) /\ k + 1 = Len(up')
    BY <1>2, <1>9, <2>1
  <2> QED
    BY <1>2, <2>1, <2>2
<1>10. ASSUME NEW k \in 0..Len(down), Followed(k) PROVE Followed(k)'
  <2>1. CASE k < Len(down)
    <3>1. k + 1 \in DOMAIN down /\ k < Len(down')
      BY <1>3, <2>1
    <3> QED
      BY <1>3, <1>10, <2>1, <3>1 DEF Followed
  <2>2. CASE k = Len(down)
    <3>0. ~ (k < Len(down))
      BY <1>3, <2>2
    <3>1. frame.kind = "receipt"
      BY <1>1, <1>2, <1>10, <3>0 DEF Followed
    <3>2. k < Len(down') /\ down'[k + 1] = frame
      BY <1>3, <2>2
    <3> QED
      BY <3>1, <3>2 DEF Followed
  <2>3. k < Len(down) \/ k = Len(down)
    <3>1. Len(down) \in Nat
      BY <1>3
    <3> QED
      BY <3>1
  <2> QED
    BY <2>1, <2>2, <2>3
<1>11. ASSUME Marker(frame), NEW k \in Nat, k = Len(down) + 1 PROVE Followed(k)'
  <2>1. 1 + 1 = Len(up) /\ up[1 + 1].kind = "receipt"
    BY <1>2, <1>11 DEF Plain
  <2>2. Len(up') = 1 /\ 1 \in 1..(Len(up) - 1)
    <3>0. Len(up') = Len(up) - 1 /\ Len(up) = 1 + 1
      BY <1>2, <2>1
    <3>1. Len(up) = 2 /\ Len(up') = 1
      BY <3>0
    <3> QED
      BY <3>1
  <2>4. up' # << >> /\ up'[1].kind = "receipt"
    BY <1>2, <2>1, <2>2
  <2>3. ~ (k < Len(down'))
    BY <1>3, <1>11
  <2> QED
    BY <2>3, <2>4 DEF Followed
<1>12. ASSUME NEW k \in DOMAIN down', Marker(down'[k]) PROVE Followed(k)'
  <2>1. CASE k \in DOMAIN down
    <3>1. Followed(k) /\ k \in 0..Len(down)
      BY <1>3, <1>12, <2>1 DEF Plain
    <3> QED
      BY <1>10, <3>1
  <2>2. CASE k = Len(down) + 1
    <3>1. Marker(frame)
      BY <1>3, <1>12, <2>2
    <3> QED
      BY <1>3, <1>11, <2>2, <3>1
  <2> QED
    BY <1>5, <2>1, <2>2
<1>13. 0 \in 0..Len(down)
  BY <1>3
<1>14. (bills # {} => bills' # {}) /\ (frame.kind = "receipt" => bills' # {})
  BY <1>1
<1>15. Accounted => Accounted'
  BY <1>1, <1>14 DEF Accounted
<1>16. client'.phase = "reading" /\ client'.final => Followed(0)' \/ Accounted'
  BY <1>1, <1>10, <1>13, <1>15 DEF Plain
<1>17. client'.phase = "complete" => Accounted'
  BY <1>1, <1>15 DEF Plain
<1>18. \A bill \in bills' : bill = Billed(Tokens(peer'))
  <2>1. frame.kind = "receipt" => frame.usage = Tokens(peer)
    BY <1>6 DEF Honest
  <2> QED
    BY <1>1, <2>1 DEF Plain
<1>19. \A k \in DOMAIN down' : down'[k].kind = "receipt" => bills' # {}
  BY <1>3, <1>5, <1>14 DEF Plain
<1> QED
  BY <1>7, <1>8, <1>9, <1>12, <1>16, <1>17, <1>18, <1>19 DEF Plain

\* The relay ends, fails, excuses itself or breaks off: a marker that the client has not
\* read yet keeps what follows it.
LEMMA RelayPlain ==
    ASSUME IInv, Plain, relay # "reading" => up = << >>,
           RelayEnds \/ RelayFails \/ Excuse \/ BreakOff
    PROVE  Plain'
<1>1. /\ UNCHANGED <<peer, bills, client>>
      /\ \/ /\ relay = "reading" /\ up = << >> /\ up' = << >>
            /\ relay' = "ended" /\ down' = down
         \/ relay' \in {"failing", "cut"} /\ up' = << >> /\ down' = down
         \/ /\ relay = "failing" /\ up = << >> /\ up' = << >>
            /\ down' = Append(down, Error)
  BY DEF RelayEnds, RelayFails, Excuse, BreakOff
<1>2. /\ DOMAIN down = 1..Len(down) /\ Len(down) \in Nat /\ down \in Seq(Frames)
      /\ Error \in Frames /\ Error.kind = "error"
  BY FramesTyped DEF Frames, Error
<1>3. \/ down' = down
      \/ /\ \A k \in DOMAIN down : down'[k] = down[k]
         /\ down'[Len(down) + 1] = Error /\ DOMAIN down' = 1..(Len(down) + 1)
         /\ Len(down') = Len(down) + 1
  BY <1>1, <1>2
<1>4. ASSUME NEW k \in DOMAIN down'
      PROVE  (k \in DOMAIN down /\ down'[k] = down[k]) \/ down'[k] = Error
  <2>1. CASE down' = down
    BY <2>1
  <2>2. CASE DOMAIN down' = 1..(Len(down) + 1) /\ down' # down
    <3>1. k \in DOMAIN down \/ k = Len(down) + 1
      BY <1>2, <2>2
    <3> QED
      BY <1>3, <2>2, <3>1
  <2> QED
    BY <1>3, <2>1, <2>2
<1>5. \A k \in DOMAIN up' : FALSE
  <2>1. DOMAIN << >> = {}
    OBVIOUS
  <2> QED
    BY <1>1, <2>1
<1>6. ~ Marker(Error) /\ Honest(peer', Error) /\ Error.kind # "receipt"
  BY <1>2 DEF Marker, Honest
<1>7. ASSUME NEW k \in 0..Len(down), Followed(k) PROVE Followed(k)'
  <2>1. CASE k < Len(down)
    <3>1. k + 1 \in DOMAIN down
      BY <1>2, <2>1
    <3>2. k < Len(down') /\ down'[k + 1] = down[k + 1]
      BY <1>2, <1>3, <2>1, <3>1
    <3> QED
      BY <1>7, <2>1, <3>2 DEF Followed
  <2>2. CASE k = Len(down)
    <3>1. ~ (k < Len(down))
      BY <1>2, <2>2
    <3>2. relay \in {"failing", "cut"} \/ (up # << >> /\ up[1].kind = "receipt")
      BY <1>7, <3>1 DEF Followed
    <3>3. CASE down' = down
      BY <1>1, <3>1, <3>2, <3>3 DEF Followed
    <3>4. CASE down' # down
      <4>1. k < Len(down') /\ down'[k + 1] = Error
        BY <1>2, <1>3, <2>2, <3>4
      <4> QED
        BY <1>2, <4>1 DEF Followed
    <3> QED
      BY <3>3, <3>4
  <2>3. k < Len(down) \/ k = Len(down)
    <3>1. Len(down) \in Nat
      BY <1>2
    <3> QED
      BY <3>1
  <2> QED
    BY <2>1, <2>2, <2>3
<1>8. \A k \in DOMAIN down' : Honest(peer', down'[k])
  BY <1>1, <1>4, <1>6 DEF Plain
<1>9. ASSUME NEW k \in DOMAIN down', Marker(down'[k]) PROVE Followed(k)'
  <2>1. k \in DOMAIN down /\ Marker(down[k])
    BY <1>4, <1>6, <1>9
  <2>2. Followed(k) /\ k \in 0..Len(down)
    BY <1>2, <2>1 DEF Plain
  <2> QED
    BY <1>7, <2>2
<1>10. Accounted => Accounted'
  BY <1>1 DEF Accounted
<1>11. client'.phase = "reading" /\ client'.final => Followed(0)' \/ Accounted'
  <2>1. 0 \in 0..Len(down)
    BY <1>2
  <2> QED
    BY <1>1, <1>7, <1>10, <2>1 DEF Plain
<1>12. client'.phase = "complete" => Accounted'
  BY <1>1, <1>10 DEF Plain
<1>13. \A bill \in bills' : bill = Billed(Tokens(peer'))
  BY <1>1 DEF Plain
<1>14. \A k \in DOMAIN down' : down'[k].kind = "receipt" => bills' # {}
  BY <1>1, <1>4, <1>6 DEF Plain
<1> QED
  BY <1>5, <1>8, <1>9, <1>11, <1>12, <1>13, <1>14 DEF Plain

\* A chunk moves the client to an error, or leaves its receipt alone and passes on its
\* final bit.
LEMMA OpenedMarks ==
    ASSUME NEW c \in Clients, NEW f \in ChunkFrames
    PROVE  \/ Opened(c, f).phase = "error"
           \/ /\ Opened(c, f).phase = c.phase /\ Opened(c, f).receipt = c.receipt
              /\ Opened(c, f).final => c.final \/ f.final
<1> DEFINE final == c.final \/ f.final
           expected == c.expected + 1
           text == IF f.piece = Empty THEN c.text ELSE Append(c.text, f.piece)
<1>1. \/ Opened(c, f) = [c EXCEPT !.phase = "error"]
      \/ Opened(c, f) = [c EXCEPT !.expected = expected, !.final = final, !.text = text]
  BY DEF Opened
<1>2. c.final \in BOOLEAN /\ f.final \in BOOLEAN
  BY DEF Clients, ChunkFrames
<1>3. final \in BOOLEAN /\ (final => c.final \/ f.final)
  BY <1>2
<1> HIDE DEF final, expected, text
<1>4. [c EXCEPT !.phase = "error"].phase = "error"
  BY DEF Clients
<1>5. /\ [c EXCEPT !.expected = expected, !.final = final, !.text = text].phase = c.phase
      /\ [c EXCEPT !.expected = expected, !.final = final, !.text = text].receipt = c.receipt
  BY DEF Clients
<1>6. [c EXCEPT !.expected = expected, !.final = final, !.text = text].final = final
  BY DEF Clients
<1>7. CASE Opened(c, f) = [c EXCEPT !.phase = "error"]
  BY <1>4, <1>7
<1>8. CASE Opened(c, f) = [c EXCEPT !.expected = expected, !.final = final, !.text = text]
  BY <1>3, <1>5, <1>6, <1>8
<1> QED
  BY <1>1, <1>7, <1>8

\* Reading a frame moves every other one place forward.
LEMMA ReadPlain ==
    ASSUME IInv, Plain, Read
    PROVE  Plain'
<1> DEFINE f == Head(down)
<1>1. /\ client.phase = "reading" /\ down # << >> /\ down' = Tail(down)
      /\ client' = CASE f.kind = "chunk" -> Opened(client, f)
                     [] f.kind = "receipt" -> [client EXCEPT !.receipt = f.usage]
                     [] f.kind = "error" -> [client EXCEPT !.phase = "error"]
      /\ UNCHANGED <<peer, said, up, relay, bills>>
  BY DEF Read
<1>2. /\ f = down[1] /\ 1 \in DOMAIN down /\ f \in Frames
      /\ Len(down') = Len(down) - 1 /\ DOMAIN down' = 1..(Len(down) - 1)
      /\ \A k \in 1..(Len(down) - 1) : down'[k] = down[k + 1]
      /\ DOMAIN down = 1..Len(down) /\ Len(down) \in Nat /\ Len(down) > 0
  BY <1>1, FramesTyped
<1> HIDE DEF f
<1>3. \A k \in DOMAIN down' : k + 1 \in DOMAIN down /\ down'[k] = down[k + 1]
  BY <1>2
<1>4. ASSUME NEW k \in 0..Len(down'), Followed(k + 1) PROVE Followed(k)'
  <2>1. k \in Nat /\ (k < Len(down') <=> k + 1 < Len(down))
    <3>1. Len(down') = Len(down) - 1 /\ Len(down) \in Nat /\ Len(down) > 0
      BY <1>2
    <3> QED
      BY <3>1
  <2>2. CASE k < Len(down')
    <3>1. k + 1 \in 1..(Len(down) - 1) /\ k + 1 < Len(down)
      BY <1>2, <2>1, <2>2
    <3>2. down'[k + 1] = down[(k + 1) + 1]
      BY <1>2, <3>1
    <3>3. down[(k + 1) + 1].kind \in {"receipt", "error"}
      BY <1>4, <3>1 DEF Followed
    <3> QED
      BY <2>2, <3>2, <3>3 DEF Followed
  <2>3. CASE ~ (k < Len(down'))
    <3>1. relay \in {"failing", "cut"} \/ (up # << >> /\ up[1].kind = "receipt")
      BY <1>4, <2>1, <2>3 DEF Followed
    <3> QED
      BY <1>1, <2>3, <3>1 DEF Followed
  <2> QED
    BY <2>2, <2>3
<1>5. \A k \in DOMAIN up' : Honest(peer', up'[k])
  BY <1>1 DEF Plain
<1>6. \A k \in DOMAIN down' : Honest(peer', down'[k])
  BY <1>1, <1>3 DEF Plain
<1>7. \A k \in DOMAIN up' : Marker(up'[k]) => k + 1 = Len(up') /\ up'[k + 1].kind = "receipt"
  BY <1>1 DEF Plain
<1>8. ASSUME NEW k \in DOMAIN down', Marker(down'[k]) PROVE Followed(k)'
  <2>1. Followed(k + 1)
    BY <1>3, <1>8 DEF Plain
  <2>2. k \in 0..Len(down')
    BY <1>2
  <2> QED
    BY <1>4, <2>1, <2>2
<1>9. \A bill \in bills' : bill = Billed(Tokens(peer'))
  BY <1>1 DEF Plain
<1>10. \A k \in DOMAIN down' : down'[k].kind = "receipt" => bills' # {}
  BY <1>1, <1>3 DEF Plain
<1>11. client \in Clients
  BY DEF IInv, TypeOK, Clients
<1>12. /\ client'.phase = "reading" /\ client'.final => Followed(0)' \/ Accounted'
       /\ client'.phase # "complete"
  <2>1. CASE f.kind = "chunk"
    <3>1. f \in ChunkFrames /\ client' = Opened(client, f)
      BY <1>1, <1>2, <2>1, FrameKinds
    <3>2. CASE client'.phase = "error"
      BY <3>2
    <3>3. CASE /\ client'.phase = client.phase /\ client'.receipt = client.receipt
               /\ client'.final => client.final \/ f.final
      <4>1. ASSUME f.final PROVE Followed(0)'
        <5>1. Marker(f)
          BY <2>1, <4>1 DEF Marker
        <5>2. Followed(0 + 1) /\ 0 \in 0..Len(down')
          BY <1>2, <5>1 DEF Plain
        <5> QED
          BY <1>4, <5>2
      <4>2. ASSUME client.final PROVE Accounted'
        <5>1. 0 < Len(down) /\ down[0 + 1] = f
          BY <1>2
        <5>2. ~ Followed(0)
          BY <2>1, <5>1 DEF Followed
        <5>3. Accounted
          BY <1>1, <4>2, <5>2 DEF Plain
        <5> QED
          BY <1>1, <3>3, <5>3 DEF Accounted
      <4> QED
        BY <1>1, <3>3, <4>1, <4>2
    <3> QED
      BY <1>11, <3>1, <3>2, <3>3, OpenedMarks
  <2>2. CASE f.kind = "receipt"
    <3>1. client' = [client EXCEPT !.receipt = f.usage]
      BY <1>1, <2>2
    <3>2. client'.receipt = f.usage /\ client'.phase = client.phase
      BY <1>11, <3>1 DEF Clients
    <3>3. f.usage = Tokens(peer) /\ bills # {}
      BY <1>2, <2>2 DEF Plain, Honest
    <3>4. Accounted'
      BY <1>1, <3>2, <3>3 DEF Accounted
    <3> QED
      BY <1>1, <3>2, <3>4
  <2>3. CASE f.kind = "error"
    <3>1. client' = [client EXCEPT !.phase = "error"]
      BY <1>1, <2>3
    <3>2. client'.phase = "error"
      BY <1>11, <3>1 DEF Clients
    <3> QED
      BY <3>2
  <2> QED
    BY <1>2, <2>1, <2>2, <2>3, FrameKinds
<1> QED
  BY <1>5, <1>6, <1>7, <1>8, <1>9, <1>10, <1>12 DEF Plain

\* The client concludes only when nothing can follow the marker any more.
LEMMA ConcludePlain ==
    ASSUME IInv, Plain, relay # "reading" => up = << >>, Conclude \/ Lose
    PROVE  Plain'
<1>1. /\ client.phase = "reading" /\ UNCHANGED <<peer, said, up, relay, bills, down>>
  BY DEF Conclude, Lose
<1>2. PICK phase \in {"complete", "truncated", "lost"} :
         /\ client' = [client EXCEPT !.phase = phase]
         /\ phase = "complete" => client.final /\ down = << >> /\ relay = "ended"
  BY DEF Conclude, Lose
<1>3. client'.phase = phase /\ client'.receipt = client.receipt
  <2>1. client \in Clients
    BY DEF IInv, TypeOK, Clients
  <2> QED
    BY <1>2, <2>1 DEF Clients
<1>4. ASSUME phase = "complete" PROVE Accounted'
  <2>1. up = << >> /\ ~ (0 < Len(down))
    BY <1>2, <1>4
  <2>2. ~ Followed(0)
    BY <1>2, <1>4, <2>1 DEF Followed
  <2>3. Accounted
    BY <1>1, <1>2, <1>4, <2>2 DEF Plain
  <2> QED
    BY <1>1, <1>3, <2>3 DEF Accounted
<1>5. \A k : Followed(k)' <=> Followed(k)
  BY <1>1 DEF Followed
<1> QED
  BY <1>1, <1>3, <1>4, <1>5 DEF Plain, Honest, Marker

\* What is said of a relay that keeps to the protocol stays true as long as it does.
LEMMA SettleStep ==
    ASSUME SInv, [Next]_vars
    PROVE  SInv'
<1>1. IInv' /\ IInv
  BY StepHolds DEF SInv
<1>2. relay' # "reading" => up' = << >>
  BY DEF SInv, Next, vars, Accept, Say, Report, Finish, Fail, Crash, Generating, Forward,
         RelayEnds, RelayFails, Excuse, BreakOff, Meddle, Read, Conclude, Lose
<1>3. CASE UNCHANGED vars
  <2>1. Plain' <=> Plain
    BY <1>3 DEF vars, Plain, Honest, Marker, Followed, Accounted
  <2> QED
    BY <1>1, <1>2, <1>3, <2>1 DEF SInv, vars
<1>4. CASE Meddle
  <2>1. meddled' # 0
    <3>1. meddled' = meddled + 1 /\ meddled \in Nat
      BY <1>1, <1>4, BoundsTyped DEF Meddle, IInv, TypeOK
    <3> QED
      BY <3>1
  <2> QED
    BY <1>1, <1>2, <2>1 DEF SInv
<1>5. CASE Next /\ ~ Meddle
  <2>1. meddled' = meddled
    BY <1>5 DEF Next, Accept, Say, Report, Finish, Fail, Crash, Forward,
                RelayEnds, RelayFails, Excuse, BreakOff, Read, Conclude, Lose
  <2>2. ASSUME meddled' = 0 PROVE Plain'
    <3>1. Plain /\ (relay # "reading" => up = << >>)
      BY <2>1, <2>2 DEF SInv
    <3> QED
      BY <1>1, <1>5, <3>1, PeerPlain, FinishPlain, ForwardPlain, RelayPlain, ReadPlain,
         ConcludePlain DEF Next
  <2> QED
    BY <1>1, <1>2, <2>2 DEF SInv
<1> QED
  BY <1>3, <1>4, <1>5

LEMMA SettleInit ==
    ASSUME Init
    PROVE  SInv
<1>1. /\ up = << >> /\ down = << >> /\ bills = {} /\ client.phase = "reading"
      /\ client.final = FALSE /\ DOMAIN << >> = {}
  BY DEF Init
<1>2. Plain
  BY <1>1 DEF Plain
<1> QED
  BY <1>1, <1>2, InitHolds DEF SInv

\* If the relay keeps to the protocol, an answer the client calls complete has been
\* billed once, at the counts of the client's receipt, and the receipt gives the engine's
\* own reason for stopping: whoever lost a frame, or failed, in between.
THEOREM CompleteSettled == Spec => []CompleteIsSettled
<1>1. ASSUME SInv PROVE CompleteIsSettled
  <2> SUFFICES ASSUME client.phase = "complete", meddled = 0
               PROVE  /\ bills = {Billed(client.receipt)}
                      /\ client.receipt.finish = peer.reported.finish
    BY DEF CompleteIsSettled
  <2>1. /\ client.receipt = Tokens(peer) /\ bills # {}
        /\ \A bill \in bills : bill = Billed(Tokens(peer))
    BY <1>1 DEF SInv, Plain, Accounted
  <2>2. bills = {Billed(client.receipt)}
    BY <2>1
  <2>3. Tokens(peer).finish = peer.reported.finish
    BY DEF Tokens
  <2> QED
    BY <2>1, <2>2, <2>3
<1>2. ASSUME SInv, [Next]_vars PROVE SInv'
  BY <1>2, SettleStep
<1> QED
  BY SettleInit, <1>1, <1>2, PTL DEF Spec
================================================================================
