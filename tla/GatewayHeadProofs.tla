------------------------- MODULE GatewayHeadProofs --------------------------
(* Theorems about the gateway head, for queues of any depth, frames of any *)
(* length, reads of any size, and any number of cuts and faults.           *)
EXTENDS GatewayHead, SequenceTheorems, TLAPS

-----------------------------------------------------------------------------
(* Frames and the parser.                                                  *)

LEMMA FrameFacts ==
    ASSUME NEW p \in Nat, NEW body \in Written, NEW junk \in Junk
    PROVE  LET f == Frame(p, body, junk)
           IN /\ f \in Seq(Symbols) /\ Len(f) \in Nat \ {0}
              /\ \A i \in 1 .. Len(f) :
                    /\ f[i].at = p + i - 1 /\ f[i].of = <<p, p + Len(f) - 1>>
                    /\ i = 3 => f[i].n + Overhead = Len(f)
<1> DEFINE lead == <<"first", "second", "plain">>
           reads == lead \o body
           Read == {"first", "second", "plain"}
           sym(i) == [at |-> p + i - 1, of |-> <<p, p + Len(reads) - 1>>, is |-> reads[i],
                      n |-> IF i = 3 THEN Len(body) - 1 ELSE junk]
<1>1. PICK n \in 0 .. MaxTotal - Overhead : body \in [1 .. n + 1 -> Bodies]
  BY DEF Written
<1>2. body \in Seq(Read) /\ Len(body) = n + 1 /\ n \in Nat
  <2>1. n \in Nat /\ n + 1 \in Nat
    OBVIOUS
  <2>2. body \in [1 .. n + 1 -> Read]
    BY <1>1, GatewayHeadAssumption
  <2> HIDE DEF Read
  <2> QED BY <2>1, <2>2
<1>3. lead \in Seq(Read) /\ Len(lead) = 3
  OBVIOUS
<1> HIDE DEF lead, Read
<1>4. reads \in Seq(Read) /\ Len(reads) = n + 4
  <2>1. /\ lead \o body \in Seq(Read)
        /\ Len(lead \o body) = Len(lead) + Len(body)
    BY <1>2, <1>3, ConcatProperties
  <2> QED BY <2>1, <1>2, <1>3
<1> HIDE DEF reads
<1>5. \A i \in 1 .. Len(reads) : sym(i) \in Symbols
  <2> TAKE i \in 1 .. Len(reads)
  <2>1. reads[i] \in {"first", "second", "plain"}
    BY <1>4 DEF Read
  <2>2. p + i - 1 \in Nat
    BY <1>4
  <2>3. junk \in Nat /\ Len(body) - 1 \in Nat
    BY <1>2, GatewayHeadAssumption
  <2> QED BY <2>1, <2>2, <2>3 DEF Symbols
<1>6. Frame(p, body, junk) = [i \in 1 .. Len(reads) |-> sym(i)]
  BY DEF Frame, reads, lead
<1> HIDE DEF sym
<1>7. Len(reads) \in Nat \ {0}
  BY <1>2, <1>4
<1>8. /\ [i \in 1 .. Len(reads) |-> sym(i)] \in Seq(Symbols)
      /\ Len([i \in 1 .. Len(reads) |-> sym(i)]) = Len(reads)
  BY <1>5, <1>7
<1>9. \A i \in 1 .. Len(reads) :
          /\ sym(i).at = p + i - 1 /\ sym(i).of = <<p, p + Len(reads) - 1>>
          /\ i = 3 => sym(i).n = Len(body) - 1
  BY DEF sym
<1>10. Len(body) - 1 + Overhead = Len(reads)
  BY <1>2, <1>4 DEF Overhead
<1> QED BY <1>6, <1>7, <1>8, <1>9, <1>10

(* After a symbol the buffer is empty or ends with it.                     *)
LEMMA ParserFacts ==
    ASSUME NEW b \in Seq(Symbols), NEW s \in Symbols
    PROVE  /\ Taken(b, s) \in {<<>>, Append(b, s)} /\ Taken(b, s) \in Seq(Symbols)
           /\ Kept(Taken(b, s)) \in {<<>>, Append(b, s)} /\ Kept(Taken(b, s)) \in Seq(Symbols)
           /\ FrameReady(Taken(b, s)) => /\ Kept(Taken(b, s)) = <<>>
                                         /\ Taken(b, s) = Append(b, s)
<1>1. Append(b, s) \in Seq(Symbols) /\ <<>> \in Seq(Symbols)
  OBVIOUS
<1>2. Taken(b, s) \in {<<>>, Append(b, s)}
  BY DEF Taken
<1>3. Kept(Taken(b, s)) \in {<<>>, Append(b, s)}
  BY <1>2 DEF Kept
<1>4. ASSUME FrameReady(Taken(b, s))
      PROVE  Kept(Taken(b, s)) = <<>> /\ Taken(b, s) = Append(b, s)
  <2>1. ~FrameReady(<<>>)
    <3>1. Len(<<>>) = 0
      OBVIOUS
    <3> QED BY <3>1 DEF FrameReady, Complete, Sized
  <2> QED BY <1>2, <1>4, <2>1 DEF FrameReady, Kept
<1> QED BY <1>1, <1>2, <1>3, <1>4

LEMMA Cutting ==
    ASSUME NEW S, NEW s \in Seq(S), NEW k \in 1 .. Len(s)
    PROVE  /\ SubSeq(s, 1, k) \in Seq(S) /\ Len(SubSeq(s, 1, k)) = k
           /\ \A i \in 1 .. k : SubSeq(s, 1, k)[i] = s[i]
           /\ SubSeq(s, k + 1, Len(s)) \in Seq(S) /\ Len(SubSeq(s, k + 1, Len(s))) = Len(s) - k
           /\ \A i \in 1 .. Len(s) - k : SubSeq(s, k + 1, Len(s))[i] = s[k + i]
<1>1. k \in Int /\ Len(s) \in Nat /\ k <= Len(s)
  OBVIOUS
<1>2. (\A i \in 1 .. k : s[i] \in S) /\ \A i \in k + 1 .. Len(s) : s[i] \in S
  BY <1>1
<1>3. /\ SubSeq(s, 1, k) \in Seq(S) /\ Len(SubSeq(s, 1, k)) = k
      /\ \A i \in 1 .. k : SubSeq(s, 1, k)[i] = s[i]
  BY <1>1, <1>2
<1>4. /\ SubSeq(s, k + 1, Len(s)) \in Seq(S) /\ Len(SubSeq(s, k + 1, Len(s))) = Len(s) - k
      /\ \A i \in 1 .. Len(s) - k : SubSeq(s, k + 1, Len(s))[i] = s[k + i]
  BY <1>1, <1>2
<1> QED BY <1>3, <1>4

-----------------------------------------------------------------------------
(* The pipe.  What is on the way to the parser lies in the buffer, the chunk *)
(* in hand, the chunks of the queue and the wire, in this order.           *)

Run(s) == \A k \in 1 .. Len(s) : s[k].at = s[1].at + k - 1
Ends(s, p) == s # <<>> => s[1].at + Len(s) = p

Front == IF hand # <<>> THEN hand ELSE buffer
Piece(i) == IF i = 0 THEN Front ELSE chunks[i]

\* Every piece is a run of symbols.
Pieces ==
    /\ Len(wire) <= written
    /\ \A i \in 1 .. Len(wire) : wire[i].at = written - Len(wire) + i - 1
    /\ \A i \in 1 .. Len(chunks) : chunks[i] # <<>> /\ Run(chunks[i])
    /\ Run(hand) /\ (hand # <<>> <=> pc = "parse")
    /\ pc = "drain" => buffer = <<>>

\* Nothing is missing in the buffer, or between it and the chunk in hand.
Sound == Run(buffer) /\ (hand # <<>> => Ends(buffer, hand[1].at))

\* Nothing is missing between the pieces, or behind them unless the callback is
\* about to say so.
Linked ==
    /\ \A i \in 0 .. Len(chunks) - 1 : Ends(Piece(i), chunks[i + 1][1].at)
    /\ callback = "idle" => Ends(Piece(Len(chunks)), written - Len(wire))

Pipe ==
    /\ Pieces
    /\ ~overflowed /\ pc # "reset" => Sound
    /\ ~overflowed /\ pc \notin {"reset", "drain"} => Linked


-----------------------------------------------------------------------------
(* The order of the symbols, whatever was dropped, and what they say.      *)

\* p is before all that is behind the i-th of the chunks cs; the wire begins at e.
After(cs, e, i, p) ==
    /\ \A j \in i + 1 .. Len(cs) : \A m \in 1 .. Len(cs[j]) : p < cs[j][m].at
    /\ p < e

\* p is before all that has not been parsed, h being in hand.
Behind(h, cs, e, p) == After(cs, e, 0, p) /\ \A k \in 1 .. Len(h) : p < h[k].at

Line(b, h, cs, e) ==
    /\ \A k \in 1 .. Len(b) : Behind(h, cs, e, b[k].at)
    /\ \A k \in 1 .. Len(h) : After(cs, e, 0, h[k].at)
    /\ \A i \in 1 .. Len(cs) : \A k \in 1 .. Len(cs[i]) : After(cs, e, i, cs[i][k].at)

Sorted == Line(buffer, hand, chunks, written - Len(wire))

\* The third symbol says how long its frame is, and the last one stands for a
\* frame of w, those written in full.
Honest(s, w) ==
    /\ s.at = s.of[1] + 2 => s.of[1] + s.n + Overhead = s.of[2] + 1
    /\ s.at = s.of[2] => s.of \in w

AllHonest(t, w) == \A k \in 1 .. Len(t) : Honest(t[k], w)

Symbolic ==
    /\ AllHonest(wire, whole) /\ AllHonest(hand, whole) /\ AllHonest(buffer, whole)
    /\ \A i \in 1 .. Len(chunks) : AllHonest(chunks[i], whole)

\* The frames found, in the order in which they are handled, are frames of w and
\* before all that is still in the pipe.
Found == handled \o rx

InLine(f, b, h, cs, e, w) ==
    /\ Ascending(f)
    /\ \A i \in 1 .. Len(f) :
          /\ Behind(h, cs, e, f[i]) /\ \A k \in 1 .. Len(b) : f[i] < b[k].at
          /\ \E x \in w : x[1] = f[i]

Frames == InLine(Found, buffer, hand, chunks, written - Len(wire), whole)

Order == Sorted /\ Symbolic /\ Frames

-----------------------------------------------------------------------------
(* Types.                                                                  *)

LEMMA Depths == {MaxTotal, ChunkDepth, RxDepth, RadioDepth} \subseteq Nat
BY GatewayHeadAssumption

LEMMA Rest ==
    ASSUME NEW S, NEW s \in Seq(S), s # <<>>
    PROVE  /\ Len(s) \in Nat \ {0} /\ s[1] \in S /\ Head(s) = s[1] /\ Tail(s) \in Seq(S)
           /\ Len(Tail(s)) = Len(s) - 1
           /\ \A i \in 1 .. Len(s) - 1 : Tail(s)[i] = s[i + 1]
<1>1. Len(s) \in Nat \ {0}
  BY EmptySeq
<1>2. Len(Tail(s)) = Len(s) - 1 /\ Tail(s) \in Seq(S) /\ Head(s) \in S
  BY HeadTailProperties
<1>3. \A i \in 1 .. Len(Tail(s)) : Tail(s)[i] = s[i + 1]
  BY HeadTailProperties
<1>4. Head(s) = s[1]
  BY <1>1
<1> QED BY <1>1, <1>2, <1>3, <1>4

LEMMA Places ==
    ASSUME NEW s \in Seq(Symbols)
    PROVE  Positions(s) \subseteq Nat
<1>1. \A i \in DOMAIN s : s[i] \in Symbols
  OBVIOUS
<1> QED BY <1>1 DEF Positions, Symbols

(* The host writes a frame, or a part of one.                              *)
LEMMA Writing ==
    ASSUME TypeOK, Write \/ WriteCut
    PROVE  TypeOK'
<1>1. ASSUME NEW symbols \in Seq(Symbols), Len(symbols) \in Nat, Put(symbols),
             whole' \subseteq Nat \X Nat, cuts' \subseteq Nat
      PROVE  TypeOK'
  <2>1. wire' \in Seq(Symbols)
    BY <1>1 DEF Put, TypeOK
  <2>2. written' \in Nat
    BY <1>1 DEF Put, TypeOK
  <2>3. strays' \subseteq Nat
    BY <1>1, Places DEF Put, TypeOK
  <2> QED BY <1>1, <2>1, <2>2, <2>3 DEF Put, TypeOK, backend, link, air
<1>2. CASE Write
  <2>1. PICK body \in Written, junk \in Junk :
           LET f == Frame(written, body, junk) IN Put(f) /\ whole' = whole \cup {f[1].of}
    BY <1>2 DEF Write
  <2>2. written \in Nat /\ cuts' \subseteq Nat
    BY <1>2 DEF Write, TypeOK
  <2> DEFINE f == Frame(written, body, junk)
  <2>3. f \in Seq(Symbols) /\ Len(f) \in Nat \ {0}
    BY <2>2, FrameFacts
  <2> HIDE DEF f
  <2>4. f[1] \in Symbols
    BY <2>3
  <2>5. whole' \subseteq Nat \X Nat
    BY <2>1, <2>4 DEF TypeOK, Symbols, f
  <2> QED BY <1>1, <2>1, <2>2, <2>3, <2>5 DEF f
<1>3. CASE WriteCut
  <2>1. PICK body \in Written, junk \in Junk :
           LET f == Frame(written, body, junk)
           IN \E k \in 1 .. Len(f) - 1 :
                 Put(SubSeq(f, 1, k)) /\ cuts' = cuts \cup {written + k - 1}
    BY <1>3 DEF WriteCut
  <2>2. written \in Nat /\ whole' \subseteq Nat \X Nat
    BY <1>3 DEF WriteCut, TypeOK
  <2> DEFINE f == Frame(written, body, junk)
  <2>3. f \in Seq(Symbols) /\ Len(f) \in Nat \ {0}
    BY <2>2, FrameFacts
  <2> HIDE DEF f
  <2>4. PICK k \in 1 .. Len(f) - 1 :
           Put(SubSeq(f, 1, k)) /\ cuts' = cuts \cup {written + k - 1}
    BY <2>1 DEF f
  <2>5. SubSeq(f, 1, k) \in Seq(Symbols) /\ Len(SubSeq(f, 1, k)) \in Nat
    <3>1. k \in 1 .. Len(f) /\ k \in Nat
      BY <2>3
    <3> QED BY <2>3, <3>1, Cutting
  <2>6. cuts' \subseteq Nat
    BY <2>2, <2>3, <2>4 DEF TypeOK
  <2> QED BY <1>1, <2>2, <2>4, <2>5, <2>6
<1> QED BY <1>2, <1>3

(* The USB task.                                                           *)
LEMMA Reading ==
    ASSUME TypeOK, Receive \/ Mark
    PROVE  TypeOK'
<1>1. CASE Mark
  BY <1>1 DEF TypeOK, Mark, host, link, air
<1>2. CASE Receive
  <2>1. PICK size \in ChunkSizes :
           LET k == IF size < Len(wire) THEN size ELSE Len(wire)
               chunk == SubSeq(wire, 1, k)
           IN /\ wire' = SubSeq(wire, k + 1, Len(wire))
              /\ \/ /\ Len(chunks) < ChunkDepth
                    /\ chunks' = Append(chunks, chunk)
                    /\ UNCHANGED <<callback, gone>>
                 \/ /\ Len(chunks) = ChunkDepth
                    /\ callback' = "mark" /\ gone' = gone \cup Positions(chunk)
                    /\ UNCHANGED chunks
    BY <1>2 DEF Receive
  <2> DEFINE k == IF size < Len(wire) THEN size ELSE Len(wire)
  <2>2. k \in 1 .. Len(wire) /\ wire \in Seq(Symbols)
    <3>1. Len(wire) \in Nat \ {0} /\ wire \in Seq(Symbols)
      BY <1>2, EmptySeq DEF Receive, TypeOK
    <3>2. size \in Nat \ {0}
      BY GatewayHeadAssumption
    <3> QED BY <3>1, <3>2
  <2> HIDE DEF k
  <2>3. SubSeq(wire, 1, k) \in Seq(Symbols) /\ SubSeq(wire, k + 1, Len(wire)) \in Seq(Symbols)
    BY <2>2, Cutting
  <2>4. wire' \in Seq(Symbols)
    BY <2>1, <2>3 DEF k
  <2>5. /\ chunks' \in Seq(Seq(Symbols)) /\ Len(chunks') <= ChunkDepth
        /\ callback' \in {"idle", "mark"} /\ gone' \subseteq Nat
    <3> DEFINE chunk == SubSeq(wire, 1, k)
    <3>1. chunk \in Seq(Symbols) /\ Positions(chunk) \subseteq Nat
      BY <2>3, Places
    <3> HIDE DEF chunk
    <3>2. CASE Len(chunks) < ChunkDepth /\ chunks' = Append(chunks, chunk) /\ UNCHANGED <<callback, gone>>
      <4>1. /\ Append(chunks, chunk) \in Seq(Seq(Symbols))
            /\ Len(Append(chunks, chunk)) = Len(chunks) + 1 /\ Len(chunks) \in Nat
        BY <3>1, AppendProperties DEF TypeOK
      <4>2. ChunkDepth \in Nat
        BY GatewayHeadAssumption
      <4> QED BY <3>2, <4>1, <4>2 DEF TypeOK
    <3>3. CASE callback' = "mark" /\ gone' = gone \cup Positions(chunk) /\ UNCHANGED chunks
      BY <3>1, <3>3 DEF TypeOK
    <3> QED BY <2>1, <3>2, <3>3 DEF k, chunk
  <2> QED BY <1>2, <2>4, <2>5 DEF Receive, TypeOK, link, air
<1> QED BY <1>1, <1>2


(* The link: chunks, the parser, and the frames it finds.                  *)
LEMMA Linking ==
    ASSUME TypeOK, pc = "parse" => hand # <<>>,
           Check \/ ResetParser \/ Drain \/ Fetch \/ Parse
    PROVE  TypeOK'
<1>1. CASE Check
  BY <1>1 DEF TypeOK, Check, host, link, air
<1>2. CASE ResetParser
  <2>1. Positions(buffer) \subseteq Nat /\ <<>> \in Seq(Symbols)
    BY Places DEF TypeOK
  <2> QED BY <1>2, <2>1 DEF TypeOK, ResetParser, host, backend, air
<1>3. CASE Drain
  <2>1. CASE chunks = <<>>
    BY <1>3, <2>1 DEF TypeOK, Drain, host, link, air
  <2>2. CASE chunks # <<>>
    <3>1. /\ Head(chunks) \in Seq(Symbols) /\ Tail(chunks) \in Seq(Seq(Symbols))
          /\ Len(Tail(chunks)) = Len(chunks) - 1 /\ Len(chunks) \in Nat
      BY <2>2, HeadTailProperties DEF TypeOK
    <3>2. Positions(Head(chunks)) \subseteq Nat
      BY <3>1, Places
    <3>3. chunks' \in Seq(Seq(Symbols)) /\ Len(chunks') <= ChunkDepth
      <4>1. chunks' = Tail(chunks)
        BY <1>3, <2>2 DEF Drain
      <4>2. Len(chunks) <= ChunkDepth /\ ChunkDepth \in Nat
        BY Depths DEF TypeOK
      <4> QED BY <3>1, <4>1, <4>2
    <3>4. gone' \subseteq Nat
      BY <1>3, <2>2, <3>2 DEF TypeOK, Drain
    <3> QED BY <1>3, <3>3, <3>4 DEF TypeOK, Drain, host, link, air
  <2> QED BY <2>1, <2>2
<1>4. CASE Fetch
  <2>1. CASE chunks = <<>>
    BY <1>4, <2>1 DEF TypeOK, Fetch, host, air
  <2>2. CASE chunks # <<>>
    <3>1. /\ Head(chunks) \in Seq(Symbols) /\ Tail(chunks) \in Seq(Seq(Symbols))
          /\ Len(Tail(chunks)) = Len(chunks) - 1 /\ Len(chunks) \in Nat
      BY <2>2, HeadTailProperties DEF TypeOK
    <3>2. chunks' \in Seq(Seq(Symbols)) /\ Len(chunks') <= ChunkDepth
      <4>1. chunks' = Tail(chunks)
        BY <1>4, <2>2 DEF Fetch
      <4>2. Len(chunks) <= ChunkDepth /\ ChunkDepth \in Nat
        BY Depths DEF TypeOK
      <4> QED BY <3>1, <4>1, <4>2
    <3>3. hand' \in Seq(Symbols) /\ pc' = "parse"
      BY <1>4, <2>2, <3>1 DEF Fetch
    <3> QED BY <1>4, <3>2, <3>3 DEF TypeOK, Fetch, host, air
  <2> QED BY <2>1, <2>2
<1>5. CASE Parse
  <2>0. hand # <<>>
    BY <1>5 DEF Parse
  <2>1. Head(hand) \in Symbols /\ Tail(hand) \in Seq(Symbols) /\ <<>> \in Seq(Symbols)
    BY <2>0, HeadTailProperties DEF TypeOK
  <2> DEFINE b == Taken(buffer, Head(hand))
  <2>2. b \in Seq(Symbols) /\ Kept(b) \in Seq(Symbols) /\ (FrameReady(b) => b # <<>>)
    <3>1. buffer \in Seq(Symbols)
      BY DEF TypeOK
    <3>2. Append(buffer, Head(hand)) # <<>>
      BY <2>1, <3>1, AppendProperties
    <3> QED BY <2>1, <3>1, <3>2, ParserFacts
  <2> HIDE DEF b
  <2>3. Positions(b) \subseteq Nat /\ Positions(hand) \subseteq Nat
    BY <2>2, Places DEF TypeOK
  <2>4. buffer' \in Seq(Symbols) /\ hand' \in Seq(Symbols) /\ gone' \subseteq Nat
    BY <1>5, <2>1, <2>2, <2>3 DEF Parse, TypeOK, b
  <2>5. rx' \in Seq(Nat) /\ Len(rx') <= RxDepth
    <3>1. CASE FrameReady(b) /\ ~RxIsFull
      <4>1. b[1].at \in Nat
        <5>1. b[1] \in Symbols
          BY <3>1, <2>2, Rest
        <5> QED BY <5>1 DEF Symbols
      <4>2. /\ Append(rx, b[1].at) \in Seq(Nat) /\ Len(Append(rx, b[1].at)) = Len(rx) + 1
            /\ Len(rx) \in Nat /\ Len(rx) <= RxDepth /\ RxDepth \in Nat
        BY <4>1, AppendProperties, GatewayHeadAssumption DEF TypeOK
      <4>3. rx' = Append(rx, b[1].at) /\ Len(rx) # RxDepth
        BY <1>5, <3>1 DEF Parse, b, RxIsFull
      <4> QED BY <4>2, <4>3
    <3>2. CASE ~(FrameReady(b) /\ ~RxIsFull)
      BY <1>5, <3>2 DEF Parse, b, TypeOK
    <3> QED BY <3>1, <3>2
  <2>6. pc' \in {"check", "parse"}
    BY <1>5 DEF Parse
  <2> QED BY <1>5, <2>4, <2>5, <2>6 DEF Parse, TypeOK, host, backend, air
<1> QED BY <1>1, <1>2, <1>3, <1>4, <1>5

(* The radio and the frames.                                               *)
LEMMA Serving ==
    ASSUME TypeOK, ServeRadio \/ HandleUsb \/ HandleAir \/ Heartbeat \/ Arrive \/ TxDone
    PROVE  TypeOK'
<1>1. CASE Heartbeat
  BY <1>1 DEF TypeOK, Heartbeat, host, backend, link, air
<1>2. CASE TxDone
  BY <1>2 DEF TypeOK, TxDone, host, backend, link
<1>3. CASE Arrive
  <2>1. arrived' \in Nat /\ chip' \in [mode : {"rx", "tx", "sent", "deaf"}, got : Nat]
    <3>1. arrived \in Nat /\ arrived' = arrived + 1
      BY <1>3 DEF Arrive, TypeOK
    <3>2. PICK ok \in BOOLEAN : chip' = [chip EXCEPT !.got = IF ok THEN arrived + 1 ELSE 0]
      BY <1>3 DEF Arrive
    <3>3. (IF ok THEN arrived + 1 ELSE 0) \in Nat
      BY <3>1
    <3>4. chip \in [mode : {"rx", "tx", "sent", "deaf"}, got : Nat]
      BY DEF TypeOK
    <3> QED BY <3>1, <3>2, <3>3, <3>4
  <2> QED BY <1>3, <2>1 DEF TypeOK, Arrive, host, backend, link
<1>4. CASE HandleAir
  <2>1. radio' \in Seq(Nat) /\ Len(radio') <= RadioDepth
    <3>1. CASE radio = <<>> /\ radio' = radio
      BY <3>1 DEF TypeOK
    <3>2. CASE radio # <<>> /\ radio' = Tail(radio)
      <4>1. Tail(radio) \in Seq(Nat) /\ Len(Tail(radio)) = Len(radio) - 1 /\ Len(radio) \in Nat
        BY <3>2, HeadTailProperties DEF TypeOK
      <4> QED BY <3>2, <4>1, Depths DEF TypeOK
    <3> QED BY <1>4, <3>1, <3>2 DEF HandleAir
  <2> QED BY <1>4, <2>1 DEF TypeOK, HandleAir, host, backend, link
<1>5. \A c \in ChipAfterFault : c \in [mode : {"rx", "tx", "sent", "deaf"}, got : Nat]
  BY DEF ChipAfterFault, TypeOK
<1>6. Receiving \in [mode : {"rx", "tx", "sent", "deaf"}, got : Nat]
  BY DEF Receiving
<1>7. (Fault \/ Fine) => faults' \in Nat
  BY DEF Fault, Fine, TypeOK
<1>8. CASE HandleUsb
  <2>1. /\ rx' \in Seq(Nat) /\ Len(rx') <= RxDepth /\ handled' \in Seq(Nat)
    <3>1. CASE rx = <<>> /\ UNCHANGED <<rx, handled>>
      BY <3>1 DEF TypeOK
    <3>2. CASE rx # <<>> /\ rx' = Tail(rx) /\ handled' = Append(handled, Head(rx))
      <4>1. /\ Head(rx) \in Nat /\ Tail(rx) \in Seq(Nat) /\ Len(Tail(rx)) = Len(rx) - 1
            /\ Len(rx) \in Nat
        BY <3>2, HeadTailProperties DEF TypeOK
      <4>2. Append(handled, Head(rx)) \in Seq(Nat)
        BY <4>1, AppendProperties DEF TypeOK
      <4> QED BY <3>2, <4>1, <4>2, Depths DEF TypeOK
    <3> QED BY <1>8, <3>1, <3>2 DEF HandleUsb
  <2>2. /\ chip' \in [mode : {"rx", "tx", "sent", "deaf"}, got : Nat]
        /\ faults' \in Nat /\ arrived' \in Nat
    <3>1. chip \in [mode : {"rx", "tx", "sent", "deaf"}, got : Nat] /\ arrived \in Nat /\ faults \in Nat
      BY DEF TypeOK
    <3>2. Transmit => chip' \in [mode : {"rx", "tx", "sent", "deaf"}, got : Nat] /\ arrived' \in Nat
      BY <3>1 DEF Transmit
    <3>3. /\ \/ UNCHANGED <<chip, arrived>>
             \/ Transmit
             \/ chip' \in ChipAfterFault /\ UNCHANGED arrived
          /\ UNCHANGED faults \/ Fine \/ Fault
      BY <1>8 DEF HandleUsb
    <3> QED BY <3>1, <3>2, <3>3, <1>5, <1>7
  <2>3. pc' \in {"check", "air"}
    BY <1>8 DEF HandleUsb
  <2> QED BY <1>8, <2>1, <2>2, <2>3 DEF TypeOK, HandleUsb, host, backend
<1>9. CASE ServeRadio
  <2>1. chip.got \in Nat
    BY DEF TypeOK
  <2>2. chip' \in [mode : {"rx", "tx", "sent", "deaf"}, got : Nat] /\ faults' \in Nat
    BY <1>5, <1>6, <1>7, <1>9 DEF ServeRadio, TypeOK
  <2>3. radio' \in Seq(Nat) /\ Len(radio') <= RadioDepth
    <3>1. CASE Len(radio) < RadioDepth /\ radio' = Append(radio, chip.got)
      <4>1. /\ Append(radio, chip.got) \in Seq(Nat)
            /\ Len(Append(radio, chip.got)) = Len(radio) + 1
            /\ Len(radio) \in Nat /\ RadioDepth \in Nat
        BY <2>1, AppendProperties, GatewayHeadAssumption DEF TypeOK
      <4> QED BY <3>1, <4>1
    <3>2. CASE radio' = radio
      BY <3>2 DEF TypeOK
    <3> QED BY <1>9, <3>1, <3>2 DEF ServeRadio
  <2>4. pc' \in {"check", "radio", "usb"}
    BY <1>9 DEF ServeRadio
  <2> QED BY <1>9, <2>2, <2>3, <2>4 DEF TypeOK, ServeRadio, host, backend, link
<1> QED BY <1>1, <1>2, <1>3, <1>4, <1>8, <1>9


-----------------------------------------------------------------------------
(* Nothing is spliced.                                                     *)

LEMMA PlaceOf ==
    ASSUME NEW s \in Seq(Symbols)
    PROVE  Len(s) \in Nat /\ \A i \in 1 .. Len(s) : s[i] \in Symbols /\ s[i].at \in Nat
<1>1. Len(s) \in Nat /\ \A i \in 1 .. Len(s) : s[i] \in Symbols
  OBVIOUS
<1> QED BY <1>1 DEF Symbols

LEMMA RunsOn ==
    ASSUME NEW s \in Seq(Symbols), NEW e \in Symbols, Run(s), Ends(s, e.at)
    PROVE  Run(Append(s, e)) /\ Ends(Append(s, e), e.at + 1)
<1> DEFINE t == Append(s, e)
<1>1. /\ Len(t) = Len(s) + 1 /\ Len(s) \in Nat
      /\ (\A i \in 1 .. Len(s) : t[i] = s[i]) /\ t[Len(s) + 1] = e
  BY AppendProperties
<1> HIDE DEF t
<1>2. e.at \in Nat
  BY DEF Symbols
<1>3. CASE s = <<>>
  <2>1. Len(s) = 0
    BY <1>3
  <2> QED BY <1>1, <1>2, <2>1 DEF Run, Ends, t
<1>4. CASE s # <<>>
  <2>1. Len(s) \in Nat \ {0} /\ s[1].at \in Nat
    BY <1>4, EmptySeq, PlaceOf
  <2>2. s[1].at + Len(s) = e.at /\ t[1] = s[1]
    BY <1>1, <1>4, <2>1 DEF Ends
  <2>3. \A k \in 1 .. Len(s) : s[k].at = s[1].at + k - 1
    BY DEF Run
  <2>4. ASSUME NEW k \in 1 .. Len(t) PROVE t[k].at = t[1].at + k - 1
    <3>1. CASE k = Len(s) + 1
      BY <3>1, <1>1, <2>1, <2>2
    <3>2. CASE k \in 1 .. Len(s)
      BY <3>2, <1>1, <2>2, <2>3
    <3> QED BY <3>1, <3>2, <1>1
  <2>5. t[1].at + Len(t) = e.at + 1
    BY <1>1, <2>1, <2>2
  <2> QED BY <2>4, <2>5 DEF Run, Ends, t
<1> QED BY <1>3, <1>4

LEMMA RunsOut ==
    ASSUME NEW s \in Seq(Symbols), s # <<>>, Run(s)
    PROVE  /\ Run(Tail(s)) /\ (Tail(s) # <<>> => Tail(s)[1].at = s[1].at + 1)
           /\ \A p \in Nat : Ends(s, p) => Ends(Tail(s), p)
           /\ Tail(s) = <<>> => \A p \in Nat : Ends(s, p) => p = s[1].at + 1
<1> DEFINE t == Tail(s)
<1>1. /\ Len(s) \in Nat \ {0} /\ t \in Seq(Symbols) /\ Len(t) = Len(s) - 1
      /\ \A i \in 1 .. Len(s) - 1 : t[i] = s[i + 1]
  BY Rest
<1>2. s[1].at \in Nat /\ \A k \in 1 .. Len(s) : s[k].at = s[1].at + k - 1
  BY <1>1, PlaceOf DEF Run
<1>3. t # <<>> => Len(t) \in Nat \ {0}
  BY <1>1, EmptySeq
<1>4. t = <<>> => Len(s) = 1
  <2>1. t = <<>> => Len(t) = 0
    BY EmptySeq
  <2> HIDE DEF t
  <2> QED BY <1>1, <2>1
<1> HIDE DEF t
<1>5. t # <<>> => t[1].at = s[1].at + 1
  <2>1. t # <<>> => 1 \in 1 .. Len(s) - 1 /\ 1 + 1 \in 1 .. Len(s)
    BY <1>1, <1>3
  <2>2. t # <<>> => t[1] = s[1 + 1] /\ s[1 + 1].at = s[1].at + (1 + 1) - 1
    BY <1>1, <1>2, <2>1
  <2> QED BY <1>2, <2>2
<1>6. Run(t)
  <2>1. ASSUME NEW k \in 1 .. Len(t) PROVE t[k].at = t[1].at + k - 1
    <3>1. k \in 1 .. Len(s) - 1 /\ k + 1 \in 1 .. Len(s) /\ k \in Nat /\ t # <<>>
      BY <1>1, EmptySeq
    <3>2. t[k] = s[k + 1] /\ s[k + 1].at = s[1].at + (k + 1) - 1
      BY <1>1, <1>2, <3>1
    <3>3. t[k].at = s[1].at + k /\ t[1].at = s[1].at + 1 /\ s[1].at \in Nat
      BY <1>2, <1>5, <3>1, <3>2
    <3>4. \A a, j \in Nat : a + j = (a + 1) + j - 1
      OBVIOUS
    <3>5. s[1].at + k = (s[1].at + 1) + k - 1
      BY <3>1, <3>3, <3>4
    <3> QED BY <3>3, <3>5
  <2> QED BY <2>1 DEF Run
<1>7. \A p \in Nat : Ends(s, p) => Ends(t, p)
  BY <1>1, <1>2, <1>3, <1>5 DEF Ends
<1>8. t = <<>> => \A p \in Nat : Ends(s, p) => p = s[1].at + 1
  BY <1>2, <1>4 DEF Ends
<1> QED BY <1>5, <1>6, <1>7, <1>8 DEF t

(* Where the pipe is left alone.                                           *)
LEMMA Elsewhere ==
    ASSUME Pipe, UNCHANGED <<wire, written, chunks, overflowed, callback, hand, buffer>>,
           pc' \notin {"reset", "drain", "parse"}, pc \notin {"reset", "drain", "parse"}
    PROVE  Pipe'
BY DEF Pipe, Pieces, Sound, Linked, Piece, Front, Run, Ends

LEMMA Filling ==
    ASSUME TypeOK, Pipe, NEW symbols \in Seq(Symbols), Put(symbols),
           \A i \in 1 .. Len(symbols) : symbols[i].at = written + i - 1
    PROVE  Pipe'
<1>1. /\ wire \in Seq(Symbols) /\ Len(wire) \in Nat /\ Len(symbols) \in Nat /\ written \in Nat
      /\ wire' = wire \o symbols /\ written' = written + Len(symbols)
  BY PlaceOf DEF TypeOK, Put
<1>2. /\ Len(wire') = Len(wire) + Len(symbols)
      /\ \A i \in 1 .. Len(wire) + Len(symbols) :
            wire'[i] = IF i <= Len(wire) THEN wire[i] ELSE symbols[i - Len(wire)]
  BY <1>1, ConcatProperties
<1>3. Len(wire) <= written /\ \A i \in 1 .. Len(wire) : wire[i].at = written - Len(wire) + i - 1
  BY DEF Pipe, Pieces
<1>4. written' - Len(wire') = written - Len(wire) /\ Len(wire') <= written'
  BY <1>1, <1>2, <1>3
<1>5. ASSUME NEW i \in 1 .. Len(wire')
      PROVE  wire'[i].at = written - Len(wire) + i - 1
  <2>1. CASE i <= Len(wire)
    BY <2>1, <1>1, <1>2, <1>3
  <2>2. CASE ~(i <= Len(wire))
    <3>1. i - Len(wire) \in 1 .. Len(symbols) /\ i \in Nat
      BY <2>2, <1>1, <1>2
    <3>2. wire'[i] = symbols[i - Len(wire)]
      BY <2>2, <1>2
    <3>3. symbols[i - Len(wire)].at = written + (i - Len(wire)) - 1
      BY <3>1
    <3> QED BY <3>1, <3>2, <3>3, <1>1
  <2> QED BY <2>1, <2>2
<1>6. UNCHANGED <<pc, chunks, overflowed, callback, hand, buffer>>
  BY DEF Put, backend, link
<1>7. Pieces'
  BY <1>4, <1>5, <1>6 DEF Pipe, Pieces, Run
<1>8. (Sound => Sound') /\ (Linked => Linked')
  BY <1>4, <1>6 DEF Sound, Linked, Piece, Front, Run, Ends
<1> QED BY <1>6, <1>7, <1>8 DEF Pipe


(* What one read takes from the wire.                                      *)
LEMMA Taking ==
    ASSUME TypeOK, Pieces, Receive
    PROVE  \E k \in 1 .. Len(wire) :
              LET chunk == SubSeq(wire, 1, k)
              IN /\ chunk \in Seq(Symbols) /\ Len(chunk) = k
                 /\ \A i \in 1 .. k : chunk[i] = wire[i]
                 /\ wire' \in Seq(Symbols) /\ Len(wire') = Len(wire) - k
                 /\ \A i \in 1 .. Len(wire) - k : wire'[i] = wire[k + i]
                 /\ \/ chunks' = Append(chunks, chunk) /\ callback' = "idle"
                    \/ chunks' = chunks /\ callback' = "mark"
<1>1. PICK size \in ChunkSizes :
         LET k == IF size < Len(wire) THEN size ELSE Len(wire)
             chunk == SubSeq(wire, 1, k)
         IN /\ wire' = SubSeq(wire, k + 1, Len(wire))
            /\ \/ chunks' = Append(chunks, chunk) /\ callback' = "idle"
               \/ chunks' = chunks /\ callback' = "mark"
  BY DEF Receive
<1> DEFINE k == IF size < Len(wire) THEN size ELSE Len(wire)
<1>2. k \in 1 .. Len(wire) /\ wire \in Seq(Symbols)
  <2>1. Len(wire) \in Nat \ {0} /\ wire \in Seq(Symbols)
    BY EmptySeq DEF Receive, TypeOK
  <2>2. size \in Nat \ {0}
    BY GatewayHeadAssumption
  <2> QED BY <2>1, <2>2
<1>3. /\ wire' = SubSeq(wire, k + 1, Len(wire))
      /\ \/ chunks' = Append(chunks, SubSeq(wire, 1, k)) /\ callback' = "idle"
         \/ chunks' = chunks /\ callback' = "mark"
  BY <1>1
<1> HIDE DEF k
<1>4. /\ SubSeq(wire, 1, k) \in Seq(Symbols) /\ Len(SubSeq(wire, 1, k)) = k
      /\ \A i \in 1 .. k : SubSeq(wire, 1, k)[i] = wire[i]
      /\ wire' \in Seq(Symbols) /\ Len(wire') = Len(wire) - k
      /\ \A i \in 1 .. Len(wire) - k : wire'[i] = wire[k + i]
  BY <1>2, <1>3, Cutting
<1> QED BY <1>2, <1>3, <1>4

LEMMA Fetching ==
    ASSUME TypeOK, Pipe, Receive \/ Mark
    PROVE  Pipe'
<1>1. CASE Mark
  <2>1. UNCHANGED <<wire, written, chunks, hand, buffer, pc>> /\ overflowed'
    BY <1>1 DEF Mark, host, link
  <2>2. Pieces'
    BY <2>1 DEF Pipe, Pieces, Run
  <2> QED BY <2>1, <2>2 DEF Pipe
<1>2. CASE Receive
  <2>1. UNCHANGED <<written, hand, buffer, overflowed, pc>> /\ callback = "idle"
    BY <1>2 DEF Receive, link
  <2>2. PICK k \in 1 .. Len(wire) :
              LET chunk == SubSeq(wire, 1, k)
              IN /\ chunk \in Seq(Symbols) /\ Len(chunk) = k
                 /\ \A i \in 1 .. k : chunk[i] = wire[i]
                 /\ wire' \in Seq(Symbols) /\ Len(wire') = Len(wire) - k
                 /\ \A i \in 1 .. Len(wire) - k : wire'[i] = wire[k + i]
                 /\ \/ chunks' = Append(chunks, chunk) /\ callback' = "idle"
                    \/ chunks' = chunks /\ callback' = "mark"
    BY <1>2, Taking DEF Pipe
  <2> DEFINE chunk == SubSeq(wire, 1, k)
  <2>3. /\ chunk \in Seq(Symbols) /\ Len(chunk) = k
        /\ \A i \in 1 .. k : chunk[i] = wire[i]
        /\ wire' \in Seq(Symbols) /\ Len(wire') = Len(wire) - k
        /\ \A i \in 1 .. Len(wire) - k : wire'[i] = wire[k + i]
        /\ \/ chunks' = Append(chunks, chunk) /\ callback' = "idle"
           \/ chunks' = chunks /\ callback' = "mark"
    BY <2>2
  <2> HIDE DEF chunk
  <2>4. Len(wire) \in Nat /\ written \in Nat /\ Len(chunks) \in Nat /\ chunks \in Seq(Seq(Symbols))
    BY DEF TypeOK
  <2>5. Len(wire) <= written /\ \A i \in 1 .. Len(wire) : wire[i].at = written - Len(wire) + i - 1
    BY DEF Pipe, Pieces
  <2>6. /\ Len(wire') <= written'
        /\ \A i \in 1 .. Len(wire') : wire'[i].at = written' - Len(wire') + i - 1
    <3>1. ASSUME NEW i \in 1 .. Len(wire')
          PROVE  wire'[i].at = written' - Len(wire') + i - 1
      <4>1. i \in 1 .. Len(wire) - k /\ k + i \in 1 .. Len(wire) /\ i \in Nat /\ k \in Nat
        BY <2>3, <2>4
      <4>2. wire'[i].at = written - Len(wire) + (k + i) - 1
        BY <2>3, <2>5, <4>1
      <4> QED BY <2>1, <2>3, <2>4, <4>1, <4>2
    <3> QED BY <2>1, <2>3, <2>4, <2>5, <3>1
  <2>7. chunk # <<>> /\ Run(chunk) /\ chunk[1].at = written - Len(wire)
    <3>1. k \in Nat \ {0} /\ 1 \in 1 .. k
      BY <2>4
    <3>2. chunk # <<>>
      BY <2>3, <3>1, EmptySeq
    <3>3. \A i \in 1 .. k : chunk[i].at = written - Len(wire) + i - 1
      <4>1. \A i \in 1 .. k : i \in 1 .. Len(wire)
        BY <2>4
      <4> QED BY <2>3, <2>5, <4>1
    <3>4. chunk[1].at = written - Len(wire)
      BY <2>4, <3>1, <3>3
    <3> QED BY <2>3, <2>4, <3>1, <3>2, <3>3, <3>4 DEF Run
  <2>8. CASE chunks' = chunks /\ callback' = "mark"
    <3>1. Pieces'
      BY <2>1, <2>6, <2>8 DEF Pipe, Pieces, Run
    <3>2. (Sound => Sound') /\ (Linked => Linked')
      BY <2>1, <2>8 DEF Sound, Linked, Piece, Front, Run, Ends
    <3> QED BY <2>1, <3>1, <3>2 DEF Pipe
  <2>9. CASE chunks' = Append(chunks, chunk) /\ callback' = "idle"
    <3>1. /\ Len(chunks') = Len(chunks) + 1 /\ chunks'[Len(chunks) + 1] = chunk
          /\ \A i \in 1 .. Len(chunks) : chunks'[i] = chunks[i]
      BY <2>3, <2>4, <2>9, AppendProperties
    <3>2. Pieces'
      <4>1. \A i \in 1 .. Len(chunks') : chunks'[i] # <<>> /\ Run(chunks'[i])
        <5> TAKE i \in 1 .. Len(chunks')
        <5>1. i = Len(chunks) + 1 \/ i \in 1 .. Len(chunks)
          BY <2>4, <3>1
        <5> QED BY <5>1, <2>7, <3>1 DEF Pipe, Pieces
      <4> QED BY <2>1, <2>6, <4>1 DEF Pipe, Pieces, Run
    <3>3. Sound => Sound'
      BY <2>1 DEF Sound, Run, Ends
    <3>4. ASSUME Linked PROVE Linked'
      <4>1. PICK n \in Nat : n = Len(chunks) /\ Len(chunks') = n + 1
        BY <2>4, <3>1
      <4>2. \A i \in 0 .. n : Piece(i)' = Piece(i)
        BY <2>1, <3>1, <4>1 DEF Piece, Front
      <4>3. Piece(n + 1)' = chunk
        BY <3>1, <4>1 DEF Piece
      <4>4. ASSUME NEW i \in 0 .. n PROVE Ends(Piece(i)', chunks'[i + 1][1].at)
        <5>1. CASE i = n
          BY <2>1, <2>7, <3>1, <3>4, <4>1, <4>2, <5>1 DEF Linked
        <5>2. CASE i \in 0 .. n - 1
          <6>1. i + 1 \in 1 .. n
            BY <4>1, <5>2
          <6> QED BY <3>1, <3>4, <4>1, <4>2, <5>2, <6>1 DEF Linked
        <5> QED BY <5>1, <5>2
      <4>5. Ends(chunk, written' - Len(wire'))
        BY <2>1, <2>3, <2>4, <2>7 DEF Ends
      <4>6. /\ \A i \in 0 .. Len(chunks') - 1 : Ends(Piece(i)', chunks'[i + 1][1].at)
            /\ Ends(Piece(n + 1)', written' - Len(wire'))
        BY <4>1, <4>3, <4>4, <4>5
      <4> QED BY <4>1, <4>6 DEF Linked, Ends, Piece
    <3> QED BY <2>1, <3>2, <3>3, <3>4 DEF Pipe
  <2> QED BY <2>3, <2>8, <2>9
<1> QED BY <1>1, <1>2


(* The queue without its first chunk.                                      *)
LEMMA Shorter ==
    ASSUME TypeOK, Pieces, chunks # <<>>, chunks' = Tail(chunks)
    PROVE  /\ Len(chunks) \in Nat \ {0} /\ Len(chunks') = Len(chunks) - 1
           /\ Head(chunks) = chunks[1] /\ chunks[1] \in Seq(Symbols)
           /\ chunks[1] # <<>> /\ Run(chunks[1])
           /\ \A i \in 1 .. Len(chunks) - 1 : chunks'[i] = chunks[i + 1]
           /\ \A i \in 1 .. Len(chunks') : chunks'[i] # <<>> /\ Run(chunks'[i])
<1>1. chunks \in Seq(Seq(Symbols))
  BY DEF TypeOK
<1>2. /\ Len(chunks) \in Nat \ {0} /\ Len(chunks') = Len(chunks) - 1
      /\ Head(chunks) = chunks[1] /\ chunks[1] \in Seq(Symbols)
      /\ \A i \in 1 .. Len(chunks) - 1 : chunks'[i] = chunks[i + 1]
  BY <1>1, Rest
<1>3. \A i \in 1 .. Len(chunks) : chunks[i] # <<>> /\ Run(chunks[i])
  BY DEF Pieces
<1>4. ASSUME NEW i \in 1 .. Len(chunks') PROVE chunks'[i] # <<>> /\ Run(chunks'[i])
  <2>1. i \in 1 .. Len(chunks) - 1 /\ i + 1 \in 1 .. Len(chunks)
    BY <1>2
  <2> QED BY <1>2, <1>3, <2>1
<1> QED BY <1>2, <1>3, <1>4

LEMMA Clearing ==
    ASSUME TypeOK, Pipe, Check \/ ResetParser \/ Drain
    PROVE  Pipe'
<1>1. CASE Check
  <2>1. UNCHANGED <<wire, written, chunks, callback, hand, buffer>> /\ pc = "check"
    BY <1>1 DEF Check, host, link
  <2>2. pc' = (IF overflowed THEN "reset" ELSE "fetch")
    BY <1>1 DEF Check
  <2>3. Pieces'
    BY <2>1, <2>2 DEF Pipe, Pieces, Run
  <2>4. (Sound => Sound') /\ (Linked => Linked')
    BY <2>1 DEF Sound, Linked, Piece, Front, Run, Ends
  <2> QED BY <2>1, <2>2, <2>3, <2>4 DEF Pipe
<1>2. CASE ResetParser
  <2>1. /\ UNCHANGED <<wire, written, chunks, callback, hand>> /\ pc = "reset"
        /\ pc' = "drain" /\ buffer' = <<>> /\ hand = <<>>
    BY <1>2 DEF ResetParser, host, backend, Pipe, Pieces
  <2>2. Pieces'
    BY <2>1 DEF Pipe, Pieces, Run
  <2>3. Len(<<>>) = 0
    OBVIOUS
  <2>4. Sound'
    BY <2>1, <2>3 DEF Sound, Run
  <2> QED BY <2>1, <2>2, <2>4 DEF Pipe
<1>3. CASE Drain
  <2>1. /\ UNCHANGED <<wire, written, callback, hand, buffer, overflowed>> /\ pc = "drain"
        /\ buffer = <<>> /\ hand = <<>>
    BY <1>3 DEF Drain, host, link, Pipe, Pieces
  <2>2. Sound => Sound'
    BY <2>1 DEF Sound, Run, Ends
  <2>3. CASE chunks = <<>> /\ pc' = "radio" /\ UNCHANGED chunks
    <3>1. Pieces'
      BY <2>1, <2>3 DEF Pipe, Pieces, Run
    <3>2. Linked'
      <4>1. Len(chunks') = 0
        BY <2>3
      <4> QED BY <2>1, <4>1 DEF Linked, Piece, Front, Ends
    <3> QED BY <2>1, <2>2, <3>1, <3>2 DEF Pipe
  <2>4. CASE chunks # <<>> /\ pc' = "drain" /\ chunks' = Tail(chunks)
    <3>1. \A i \in 1 .. Len(chunks') : chunks'[i] # <<>> /\ Run(chunks'[i])
      BY <2>4, Shorter DEF Pipe
    <3>2. Pieces'
      BY <2>1, <2>4, <3>1 DEF Pipe, Pieces, Run
    <3> QED BY <2>1, <2>2, <2>4, <3>2 DEF Pipe
  <2> QED BY <1>3, <2>1, <2>3, <2>4 DEF Drain
<1> QED BY <1>1, <1>2, <1>3

LEMMA Handing ==
    ASSUME TypeOK, Pipe, Fetch
    PROVE  Pipe'
<1>1. UNCHANGED <<wire, written, overflowed, callback, buffer>> /\ pc = "fetch" /\ hand = <<>>
  BY DEF Fetch, host, Pipe, Pieces
<1>2. CASE chunks = <<>> /\ pc' = "radio" /\ UNCHANGED <<chunks, hand>>
  BY <1>1, <1>2, Elsewhere
<1>3. CASE chunks # <<>> /\ pc' = "parse" /\ hand' = Head(chunks) /\ chunks' = Tail(chunks)
  <2>1. /\ Len(chunks) \in Nat \ {0} /\ Len(chunks') = Len(chunks) - 1
        /\ Head(chunks) = chunks[1] /\ chunks[1] # <<>> /\ Run(chunks[1])
        /\ \A i \in 1 .. Len(chunks) - 1 : chunks'[i] = chunks[i + 1]
        /\ \A i \in 1 .. Len(chunks') : chunks'[i] # <<>> /\ Run(chunks'[i])
    BY <1>3, Shorter DEF Pipe
  <2>2. Pieces'
    BY <1>1, <1>3, <2>1 DEF Pipe, Pieces, Run
  <2>3. PICK n \in Nat : Len(chunks) = n + 1 /\ Len(chunks') = n
    <3>1. Len(chunks) - 1 \in Nat /\ Len(chunks) = (Len(chunks) - 1) + 1
      BY <2>1
    <3> QED BY <2>1, <3>1
  <2>4. ASSUME Linked PROVE Linked'
    <3>1. \A i \in 0 .. n : Piece(i)' = Piece(i + 1)
      <4> TAKE i \in 0 .. n
      <4>1. CASE i = 0
        BY <1>3, <2>1, <4>1 DEF Piece, Front
      <4>2. CASE i # 0
        <5>1. i \in 1 .. Len(chunks) - 1 /\ i + 1 # 0
          BY <2>3, <4>2
        <5> QED BY <2>1, <4>2, <5>1 DEF Piece
      <4> QED BY <4>1, <4>2
    <3>2. ASSUME NEW i \in 0 .. n - 1 PROVE Ends(Piece(i)', chunks'[i + 1][1].at)
      <4>1. /\ i + 1 \in 0 .. Len(chunks) - 1 /\ i + 1 \in 1 .. Len(chunks) - 1
            /\ i \in 0 .. n
        BY <2>3
      <4>2. Ends(Piece(i + 1), chunks[(i + 1) + 1][1].at)
        BY <2>4, <4>1 DEF Linked
      <4> QED BY <2>1, <3>1, <4>1, <4>2
    <3>3. callback = "idle" => Ends(Piece(n)', written - Len(wire))
      <4>1. callback = "idle" => Ends(Piece(n + 1), written - Len(wire))
        BY <2>3, <2>4 DEF Linked
      <4> QED BY <2>3, <3>1, <4>1
    <3> QED BY <1>1, <2>3, <3>2, <3>3 DEF Linked, Ends, Piece
  <2>5. ASSUME Linked, Sound PROVE Sound'
    <3>1. Ends(Piece(0), chunks[0 + 1][1].at)
      BY <2>3, <2>5 DEF Linked
    <3>2. Ends(buffer, chunks[1][1].at)
      BY <1>1, <3>1 DEF Piece, Front
    <3> QED BY <1>1, <1>3, <2>1, <2>5, <3>2 DEF Sound, Run, Ends
  <2> QED BY <1>1, <1>3, <2>2, <2>4, <2>5 DEF Pipe
<1> QED BY <1>2, <1>3 DEF Fetch


(* What one byte does to the parser and to the chunk in hand.              *)
LEMMA Byte ==
    ASSUME TypeOK, Pipe, Parse
    PROVE  /\ hand # <<>> /\ hand \in Seq(Symbols) /\ hand[1] \in Symbols
           /\ \/ hand' = Tail(hand) /\ buffer' \in {<<>>, Append(buffer, hand[1])}
              \/ hand' = <<>> /\ buffer' = <<>>
           /\ \/ rx' = rx
              \/ /\ FrameReady(Append(buffer, hand[1])) /\ buffer' = <<>>
                 /\ rx' = Append(rx, Append(buffer, hand[1])[1].at)
<1> DEFINE b == Taken(buffer, Head(hand))
           full == FrameReady(b) /\ RxIsFull
<1>1. hand # <<>> /\ hand \in Seq(Symbols) /\ buffer \in Seq(Symbols)
  BY DEF Pipe, Pieces, TypeOK, Parse
<1>2. hand[1] \in Symbols /\ Head(hand) = hand[1]
  BY <1>1, Rest
<1>3. /\ buffer' = Kept(b) /\ hand' = (IF full THEN <<>> ELSE Tail(hand))
      /\ rx' = (IF FrameReady(b) /\ ~full THEN Append(rx, b[1].at) ELSE rx)
  BY DEF Parse
<1>4. /\ Kept(b) \in {<<>>, Append(buffer, hand[1])}
      /\ FrameReady(b) => Kept(b) = <<>> /\ b = Append(buffer, hand[1])
  BY <1>1, <1>2, ParserFacts
<1> HIDE DEF b
<1> QED BY <1>1, <1>2, <1>3, <1>4

LEMMA Parsing ==
    ASSUME TypeOK, Pipe, Parse
    PROVE  Pipe'
<1>1. /\ UNCHANGED <<wire, written, chunks, overflowed, callback>>
      /\ pc' = (IF hand' = <<>> THEN "check" ELSE "parse") /\ pc = "parse"
  BY DEF Parse, host, backend
<1>2. /\ hand # <<>> /\ hand \in Seq(Symbols) /\ hand[1] \in Symbols
      /\ \/ hand' = Tail(hand) /\ buffer' \in {<<>>, Append(buffer, hand[1])}
         \/ hand' = <<>> /\ buffer' = <<>>
  BY Byte
<1>3. Run(hand) /\ buffer \in Seq(Symbols)
  BY DEF Pipe, Pieces, TypeOK
<1>4. Len(<<>>) = 0 /\ hand[1].at \in Nat
  BY <1>2 DEF Symbols
<1>5. Pieces'
  <2>1. Run(hand')
    <3>1. Run(Tail(hand))
      BY <1>2, <1>3, RunsOut
    <3>2. Run(<<>>)
      BY <1>4 DEF Run
    <3> QED BY <1>2, <3>1, <3>2
  <2> QED BY <1>1, <2>1 DEF Pipe, Pieces, Run
<1>6. ASSUME Sound, buffer' # <<>>
      PROVE  /\ hand' = Tail(hand) /\ Run(buffer') /\ Ends(buffer', hand[1].at + 1)
  <2>1. hand' = Tail(hand) /\ buffer' = Append(buffer, hand[1])
    BY <1>2, <1>6
  <2>2. Run(buffer) /\ Ends(buffer, hand[1].at)
    BY <1>2, <1>6 DEF Sound
  <2> QED BY <1>2, <1>3, <2>1, <2>2, RunsOn
<1>7. ASSUME Sound PROVE Sound'
  <2>1. CASE buffer' = <<>>
    BY <1>4, <2>1 DEF Sound, Run, Ends
  <2>2. CASE buffer' # <<>>
    <3>1. hand' # <<>> => hand'[1].at = hand[1].at + 1
      BY <1>2, <1>3, <1>6, <1>7, <2>2, RunsOut
    <3> QED BY <1>6, <1>7, <2>2, <3>1 DEF Sound, Run, Ends
  <2> QED BY <2>1, <2>2
<1>8. ASSUME Sound, NEW p \in Nat, Ends(hand, p)
      PROVE  Ends(Front', p)
  <2>1. CASE hand' # <<>>
    BY <1>2, <1>3, <1>8, <2>1, RunsOut DEF Front
  <2>2. CASE hand' = <<>>
    <3>1. Front' = buffer'
      BY <2>2 DEF Front
    <3>2. CASE buffer' = <<>>
      BY <3>1, <3>2 DEF Ends
    <3>3. CASE buffer' # <<>>
      <4>1. Tail(hand) = <<>> /\ Ends(buffer', hand[1].at + 1)
        BY <1>6, <1>8, <2>2, <3>3
      <4>2. p = hand[1].at + 1
        BY <1>2, <1>3, <1>8, <4>1, RunsOut
      <4> QED BY <3>1, <4>1, <4>2
    <3> QED BY <3>2, <3>3
  <2> QED BY <2>1, <2>2
<1>9. ASSUME Sound, Linked PROVE Linked'
  <2>1. \A i \in Nat : /\ i # 0 => Piece(i)' = Piece(i)
                       /\ i = 0 => Piece(i) = hand /\ Piece(i)' = Front'
    BY <1>1, <1>2 DEF Piece, Front
  <2>2. \A i \in Nat, p \in Nat : Ends(Piece(i), p) => Ends(Piece(i)', p)
    BY <1>8, <1>9, <2>1
  <2>3. PICK n \in Nat : n = Len(chunks)
    BY DEF TypeOK
  <2>4. \A i \in 0 .. n - 1 : chunks[i + 1][1].at \in Nat
    <3> TAKE i \in 0 .. n - 1
    <3>1. chunks[i + 1] \in Seq(Symbols) /\ chunks[i + 1] # <<>>
      BY <2>3 DEF TypeOK, Pipe, Pieces
    <3>2. chunks[i + 1][1] \in Symbols
      BY <3>1, Rest
    <3> QED BY <3>2 DEF Symbols
  <2>5. written - Len(wire) \in Nat
    BY DEF TypeOK, Pipe, Pieces
  <2>6. /\ \A i \in 0 .. n - 1 : Ends(Piece(i), chunks[i + 1][1].at)
        /\ callback = "idle" => Ends(Piece(n), written - Len(wire))
    BY <1>9, <2>3 DEF Linked
  <2>7. \A i \in 0 .. n - 1 : Ends(Piece(i)', chunks[i + 1][1].at)
    BY <2>2, <2>3, <2>4, <2>6
  <2>8. callback = "idle" => Ends(Piece(n)', written - Len(wire))
    BY <2>2, <2>5, <2>6
  <2> QED BY <1>1, <2>3, <2>7, <2>8 DEF Linked, Ends, Piece
<1> QED BY <1>1, <1>5, <1>7, <1>9 DEF Pipe

-----------------------------------------------------------------------------

LEMMA Begin == Init => TypeOK /\ Pipe
<1> SUFFICES ASSUME Init PROVE TypeOK /\ Pipe
  OBVIOUS
<1>1. \A S : <<>> \in Seq(S)
  BY EmptySeq
<1>2. Len(<<>>) = 0
  OBVIOUS
<1>3. TypeOK
  <2>1. chip \in [mode : {"rx", "tx", "sent", "deaf"}, got : Nat]
    BY DEF Init
  <2>2. Len(<<>>) <= ChunkDepth /\ Len(<<>>) <= RxDepth /\ Len(<<>>) <= RadioDepth
    BY <1>2, Depths
  <2>3. /\ wire \in Seq(Symbols) /\ hand \in Seq(Symbols) /\ buffer \in Seq(Symbols)
        /\ chunks \in Seq(Seq(Symbols)) /\ Len(chunks) <= ChunkDepth
        /\ rx \in Seq(Nat) /\ Len(rx) <= RxDepth /\ handled \in Seq(Nat)
        /\ radio \in Seq(Nat) /\ Len(radio) <= RadioDepth
    BY <1>1, <2>2 DEF Init
  <2> QED BY <2>1, <2>3 DEF Init, TypeOK
<1>4. Pieces /\ Sound /\ Linked
  BY <1>2 DEF Init, Pieces, Sound, Linked, Piece, Front, Run, Ends
<1> QED BY <1>3, <1>4 DEF Pipe

LEMMA Step == TypeOK /\ Pipe /\ [Next]_vars => TypeOK' /\ Pipe'
<1> SUFFICES ASSUME TypeOK, Pipe, [Next]_vars
             PROVE  TypeOK' /\ Pipe'
  OBVIOUS
<1>1. CASE Write \/ WriteCut
  <2>1. PICK symbols \in Seq(Symbols) :
           /\ Put(symbols)
           /\ \A i \in 1 .. Len(symbols) : symbols[i].at = written + i - 1
    <3>1. written \in Nat
      BY DEF TypeOK
    <3>2. CASE Write
      BY <3>1, <3>2, FrameFacts DEF Write
    <3>3. CASE WriteCut
      <4>1. PICK body \in Written, junk \in Junk :
               LET f == Frame(written, body, junk)
               IN \E k \in 1 .. Len(f) - 1 : Put(SubSeq(f, 1, k))
        BY <3>3 DEF WriteCut
      <4> DEFINE f == Frame(written, body, junk)
      <4>2. /\ f \in Seq(Symbols) /\ Len(f) \in Nat \ {0}
            /\ \A i \in 1 .. Len(f) : f[i].at = written + i - 1
        BY <3>1, FrameFacts
      <4>3. PICK k \in 1 .. Len(f) - 1 : Put(SubSeq(f, 1, k))
        BY <4>1
      <4> HIDE DEF f
      <4>4. k \in 1 .. Len(f) /\ \A i \in 1 .. k : i \in 1 .. Len(f)
        BY <4>2
      <4>5. /\ SubSeq(f, 1, k) \in Seq(Symbols) /\ Len(SubSeq(f, 1, k)) = k
            /\ \A i \in 1 .. k : SubSeq(f, 1, k)[i] = f[i]
        BY <4>2, <4>4, Cutting
      <4>6. \A i \in 1 .. k : SubSeq(f, 1, k)[i].at = written + i - 1
        BY <4>2, <4>4, <4>5
      <4> QED BY <4>3, <4>5, <4>6
    <3> QED BY <1>1, <3>2, <3>3
  <2> QED BY <1>1, <2>1, Writing, Filling
<1>2. CASE Receive \/ Mark
  BY <1>2, Reading, Fetching
<1>3. CASE Check \/ ResetParser \/ Drain \/ Fetch \/ Parse
  <2>1. pc = "parse" => hand # <<>>
    BY DEF Pipe, Pieces
  <2> QED BY <1>3, <2>1, Linking, Clearing, Handing, Parsing
<1>4. CASE ServeRadio \/ HandleUsb \/ HandleAir \/ Heartbeat
  <2>1. UNCHANGED <<wire, written, chunks, overflowed, callback, hand, buffer>>
    BY <1>4 DEF ServeRadio, HandleUsb, HandleAir, Heartbeat, host, backend, link
  <2>2. /\ pc \notin {"reset", "drain", "parse"}
        /\ pc' \notin {"reset", "drain", "parse"}
    BY <1>4 DEF ServeRadio, HandleUsb, HandleAir, Heartbeat
  <2> QED BY <1>4, <2>1, <2>2, Serving, Elsewhere
<1>5. CASE Arrive \/ TxDone
  <2>1. UNCHANGED <<wire, written, chunks, overflowed, callback, hand, buffer, pc>>
    BY <1>5 DEF Arrive, TxDone, host, backend, link
  <2>2. Pipe'
    BY <2>1 DEF Pipe, Pieces, Sound, Linked, Piece, Front, Run, Ends
  <2> QED BY <1>5, <2>2, Serving
<1>6. CASE UNCHANGED vars
  <2>1. Pipe'
    BY <1>6 DEF vars, host, backend, link, Pipe, Pieces, Sound, Linked, Piece, Front, Run, Ends
  <2> QED BY <1>6, <2>1 DEF vars, host, backend, link, air, TypeOK
<1> QED BY <1>1, <1>2, <1>3, <1>4, <1>5, <1>6 DEF Next, Poll

(* Every variable keeps its type and no queue of the gateway head outgrows *)
(* its depth, whatever is written, dropped or received.                    *)
THEOREM TypeCorrect == Spec => []TypeOK
<1>1. Spec => [](TypeOK /\ Pipe)
  BY Begin, Step, PTL DEF Spec
<1> QED BY <1>1, PTL

(* The parser never goes on with symbols from before and after a chunk that *)
(* was dropped: the flag the callback raises is seen, and the parser reset, *)
(* before a frame could be made of both.                                   *)
THEOREM NothingSpliced == Spec => []NoSplice
<1>1. TypeOK /\ Pipe => NoSplice
  <2> SUFFICES ASSUME TypeOK, Pipe, ~overflowed, pc # "reset",
                      NEW k \in 1 .. Len(buffer) - 1
               PROVE  buffer[k + 1].at = buffer[k].at + 1
    BY DEF NoSplice
  <2>1. Len(buffer) \in Nat /\ \A i \in 1 .. Len(buffer) : buffer[i].at \in Nat
    BY PlaceOf DEF TypeOK
  <2>2. Run(buffer)
    BY DEF Pipe, Sound
  <2>3. k \in 1 .. Len(buffer) /\ k + 1 \in 1 .. Len(buffer) /\ 1 \in 1 .. Len(buffer)
    BY <2>1
  <2>4. /\ buffer[k].at = buffer[1].at + k - 1
        /\ buffer[k + 1].at = buffer[1].at + (k + 1) - 1
    BY <2>2, <2>3 DEF Run
  <2>5. buffer[1].at \in Nat /\ k \in Nat
    BY <2>1, <2>3
  <2> QED BY <2>4, <2>5
<1>2. Spec => [](TypeOK /\ Pipe)
  BY Begin, Step, PTL DEF Spec
<1> QED BY <1>1, <1>2, PTL


-----------------------------------------------------------------------------
(* Frames are found in order.                                              *)

(* A step that changes neither what is found nor what is to be found.      *)
LEMMA OrderStays ==
    ASSUME Order, UNCHANGED <<wire, written, whole, chunks, hand, buffer>>, Found' = Found
    PROVE  Order'
BY DEF Order, Sorted, Symbolic, Frames

LEMMA Taken1 ==
    ASSUME NEW s \in Seq(Nat), NEW t \in Seq(Nat), t # <<>>
    PROVE  Append(s, Head(t)) \o Tail(t) = s \o t
<1>1. /\ Len(t) \in Nat \ {0} /\ t[1] \in Nat /\ Head(t) = t[1] /\ Tail(t) \in Seq(Nat)
      /\ Len(Tail(t)) = Len(t) - 1 /\ \A i \in 1 .. Len(t) - 1 : Tail(t)[i] = t[i + 1]
  BY Rest
<1> DEFINE u == Append(s, t[1])
           r == Tail(t)
<1>2. /\ u \in Seq(Nat) /\ Len(u) = Len(s) + 1 /\ Len(s) \in Nat
      /\ (\A i \in 1 .. Len(s) : u[i] = s[i]) /\ u[Len(s) + 1] = t[1]
  BY <1>1, AppendProperties
<1>3. r \in Seq(Nat) /\ Len(r) = Len(t) - 1 /\ \A i \in 1 .. Len(t) - 1 : r[i] = t[i + 1]
  BY <1>1
<1> HIDE DEF u, r
<1>4. /\ u \o r \in Seq(Nat) /\ Len(u \o r) = Len(u) + Len(r)
      /\ \A i \in 1 .. Len(u) + Len(r) : (u \o r)[i] = IF i <= Len(u) THEN u[i] ELSE r[i - Len(u)]
  BY <1>2, <1>3, ConcatProperties
<1>5. /\ s \o t \in Seq(Nat) /\ Len(s \o t) = Len(s) + Len(t)
      /\ \A i \in 1 .. Len(s) + Len(t) : (s \o t)[i] = IF i <= Len(s) THEN s[i] ELSE t[i - Len(s)]
  BY ConcatProperties
<1>6. Len(u \o r) = Len(s \o t)
  BY <1>1, <1>2, <1>3, <1>4, <1>5
<1>7. ASSUME NEW i \in 1 .. Len(u \o r) PROVE (u \o r)[i] = (s \o t)[i]
  <2>1. i \in Nat /\ i \in 1 .. Len(u) + Len(r) /\ i \in 1 .. Len(s) + Len(t)
    BY <1>1, <1>2, <1>3, <1>4
  <2>2. CASE i <= Len(s)
    <3>1. i \in 1 .. Len(s) /\ i <= Len(u)
      BY <1>2, <2>1, <2>2
    <3> QED BY <1>2, <1>4, <1>5, <2>1, <2>2, <3>1
  <2>3. CASE i = Len(s) + 1
    <3>1. (u \o r)[i] = u[Len(s) + 1]
      BY <1>2, <1>4, <2>1, <2>3
    <3>2. (s \o t)[i] = t[1]
      BY <1>2, <1>5, <2>1, <2>3
    <3> QED BY <1>2, <3>1, <3>2
  <2>4. CASE i > Len(s) + 1
    <3>0. /\ Len(s) \in Nat /\ Len(t) \in Nat /\ i \in Nat
          /\ Len(u) = Len(s) + 1 /\ i <= Len(s) + Len(t)
      BY <1>1, <1>2, <2>1
    <3>1. /\ ~(i <= Len(u)) /\ i - Len(u) \in 1 .. Len(t) - 1 /\ ~(i <= Len(s))
          /\ i - Len(s) = (i - Len(u)) + 1
      BY <2>4, <3>0
    <3>2. (u \o r)[i] = t[(i - Len(u)) + 1]
      BY <1>3, <1>4, <2>1, <3>1
    <3>3. (s \o t)[i] = t[i - Len(s)]
      BY <1>5, <2>1, <3>1
    <3> QED BY <3>1, <3>2, <3>3
  <2> QED BY <1>2, <2>1, <2>2, <2>3, <2>4
<1>8. u \o r = s \o t
  BY <1>4, <1>5, <1>6, <1>7, SeqEqual
<1> QED BY <1>1, <1>8 DEF u, r

LEMMA FoundOne ==
    ASSUME NEW s \in Seq(Nat), NEW t \in Seq(Nat), NEW e \in Nat
    PROVE  s \o Append(t, e) = Append(s \o t, e)
<1> DEFINE w == Append(t, e)
           u == s \o t
<1>1. /\ w \in Seq(Nat) /\ Len(w) = Len(t) + 1 /\ Len(t) \in Nat /\ Len(s) \in Nat
      /\ (\A i \in 1 .. Len(t) : w[i] = t[i]) /\ w[Len(t) + 1] = e
  BY AppendProperties
<1>2. /\ u \in Seq(Nat) /\ Len(u) = Len(s) + Len(t)
      /\ \A i \in 1 .. Len(s) + Len(t) : u[i] = IF i <= Len(s) THEN s[i] ELSE t[i - Len(s)]
  BY ConcatProperties
<1> HIDE DEF w, u
<1>3. /\ s \o w \in Seq(Nat) /\ Len(s \o w) = Len(s) + Len(w)
      /\ \A i \in 1 .. Len(s) + Len(w) : (s \o w)[i] = IF i <= Len(s) THEN s[i] ELSE w[i - Len(s)]
  BY <1>1, ConcatProperties
<1>4. /\ Append(u, e) \in Seq(Nat) /\ Len(Append(u, e)) = Len(u) + 1
      /\ (\A i \in 1 .. Len(u) : Append(u, e)[i] = u[i]) /\ Append(u, e)[Len(u) + 1] = e
  BY <1>2, AppendProperties
<1>5. ASSUME NEW i \in 1 .. Len(s) + Len(w) PROVE (s \o w)[i] = Append(u, e)[i]
  <2>1. i \in Nat /\ (i <= Len(s) \/ i \in Len(s) + 1 .. Len(u) \/ i = Len(u) + 1)
    <3>1. /\ Len(s) \in Nat /\ Len(t) \in Nat /\ Len(u) = Len(s) + Len(t) /\ Len(w) = Len(t) + 1
      BY <1>1, <1>2
    <3>2. i \in Nat /\ i <= Len(s) + (Len(t) + 1)
      BY <3>1
    <3> QED BY <3>1, <3>2
  <2>2. CASE i <= Len(s)
    <3>1. i \in 1 .. Len(u)
      BY <1>1, <1>2, <2>1, <2>2
    <3> QED BY <1>2, <1>3, <1>4, <2>2, <3>1
  <2>3. CASE i \in Len(s) + 1 .. Len(u)
    <3>1. i \in 1 .. Len(u) /\ ~(i <= Len(s)) /\ i - Len(s) \in 1 .. Len(t)
      BY <1>1, <1>2, <2>1, <2>3
    <3>2. (s \o w)[i] = w[i - Len(s)] /\ u[i] = t[i - Len(s)]
      BY <1>2, <1>3, <3>1
    <3> QED BY <1>1, <1>4, <3>1, <3>2
  <2>4. CASE i = Len(u) + 1
    <3>1. ~(i <= Len(s)) /\ i - Len(s) = Len(t) + 1
      BY <1>1, <1>2, <2>4
    <3> QED BY <1>1, <1>3, <1>4, <2>4, <3>1
  <2> QED BY <2>1, <2>2, <2>3, <2>4
<1>6. Len(s \o w) = Len(Append(u, e))
  BY <1>1, <1>2, <1>3, <1>4
<1>7. s \o w = Append(u, e)
  BY <1>3, <1>4, <1>5, <1>6, SeqEqual
<1> QED BY <1>7 DEF u, w

(* A frame that is ready was written in full from its first symbol on.     *)
LEMMA ReadyIsWhole ==
    ASSUME NEW b \in Seq(Symbols), AllHonest(b, whole), FrameReady(b)
    PROVE  b[1].of \in whole /\ b[1].at = b[1].of[1] /\ b # <<>>
<1>1. /\ Len(b) \in Nat /\ Len(b) >= 3 /\ Len(b) = Overhead + b[3].n
      /\ DOMAIN b = 1 .. Len(b)
  BY DEF FrameReady, Complete, Sized, Total
<1>2. {1, 3, Len(b)} \subseteq 1 .. Len(b) /\ b # <<>>
  BY <1>1
<1>3. b[1] \in Symbols /\ b[3] \in Symbols
  BY <1>2
<1>4. b[1].of[1] \in Nat /\ b[1].of[2] \in Nat /\ b[3].n \in Nat
  BY <1>3 DEF Symbols
<1>5. \A k \in 1 .. Len(b) : b[k].of = b[1].of /\ b[k].at = b[1].of[1] + k - 1
  BY <1>1 DEF FrameReady, Checks
<1>6. Honest(b[3], whole) /\ Honest(b[Len(b)], whole)
  BY <1>2 DEF AllHonest
<1>7. b[3].of = b[1].of /\ b[3].at = b[1].of[1] + 2
  BY <1>2, <1>4, <1>5
<1>8. b[1].of[1] + b[3].n + Overhead = b[1].of[2] + 1
  BY <1>6, <1>7 DEF Honest
<1>9. b[Len(b)].of = b[1].of /\ b[Len(b)].at = b[1].of[1] + Len(b) - 1
  BY <1>2, <1>5
<1>10. b[Len(b)].at = b[1].of[2]
  <2> DEFINE p == b[1].of[1]
             n == b[3].n
             q == b[1].of[2]
  <2>1. p \in Nat /\ n \in Nat /\ q \in Nat /\ p + n + 4 = q + 1
    BY <1>4, <1>8 DEF Overhead
  <2>2. b[Len(b)].at = p + (4 + n) - 1
    BY <1>1, <1>9 DEF Overhead
  <2> HIDE DEF p, n, q
  <2>3. p + (4 + n) - 1 = q
    BY <2>1
  <2> QED BY <2>2, <2>3 DEF q
<1>11. b[1].at = b[1].of[1]
  BY <1>2, <1>4, <1>5
<1> QED BY <1>2, <1>6, <1>9, <1>10, <1>11 DEF Honest


(* The host: what it writes comes after all there is.                      *)
LEMMA OrderWriting ==
    ASSUME TypeOK, Order, NEW symbols \in Seq(Symbols), Put(symbols),
           whole \subseteq whole', AllHonest(symbols, whole')
    PROVE  Order'
<1>1. /\ UNCHANGED <<chunks, hand, buffer, handled, rx>>
      /\ wire' = wire \o symbols /\ written' = written + Len(symbols)
  BY DEF Put, backend, link
<1>2. /\ wire \in Seq(Symbols) /\ Len(wire) \in Nat /\ written \in Nat /\ Len(symbols) \in Nat
  BY DEF TypeOK
<1>3. /\ Len(wire') = Len(wire) + Len(symbols)
      /\ \A i \in 1 .. Len(wire) + Len(symbols) :
            wire'[i] = IF i <= Len(wire) THEN wire[i] ELSE symbols[i - Len(wire)]
  BY <1>1, <1>2, ConcatProperties
<1>4. written' - Len(wire') = written - Len(wire)
  BY <1>1, <1>2, <1>3
<1>5. Sorted'
  BY <1>1, <1>4 DEF Order, Sorted
<1>6. Frames'
  <2>1. InLine(Found, buffer, hand, chunks, written - Len(wire), whole')
    BY DEF Order, Frames, InLine
  <2> QED BY <1>1, <1>4, <2>1 DEF Frames, Found
<1>7. \A s : Honest(s, whole) => Honest(s, whole')
  BY DEF Honest
<1>8. AllHonest(wire', whole')
  <2>1. ASSUME NEW i \in 1 .. Len(wire') PROVE Honest(wire'[i], whole')
    <3>1. CASE i <= Len(wire)
      <4>1. i \in 1 .. Len(wire) /\ wire'[i] = wire[i]
        BY <1>2, <1>3, <3>1
      <4> QED BY <1>7, <4>1 DEF Order, Symbolic, AllHonest
    <3>2. CASE ~(i <= Len(wire))
      <4>1. i - Len(wire) \in 1 .. Len(symbols) /\ wire'[i] = symbols[i - Len(wire)]
        BY <1>2, <1>3, <3>2
      <4> QED BY <4>1 DEF AllHonest
    <3> QED BY <3>1, <3>2
  <2> QED BY <2>1 DEF AllHonest
<1>9. Symbolic'
  <2>1. /\ AllHonest(hand, whole') /\ AllHonest(buffer, whole')
        /\ \A i \in 1 .. Len(chunks) : AllHonest(chunks[i], whole')
    BY <1>7 DEF Order, Symbolic, AllHonest
  <2> QED BY <1>1, <1>8, <2>1 DEF Symbolic
<1> QED BY <1>5, <1>6, <1>9 DEF Order

LEMMA OrderReading ==
    ASSUME TypeOK, Pieces, Order, Receive
    PROVE  Order'
<1>1. UNCHANGED <<written, whole, hand, buffer, handled, rx>>
  BY DEF Receive, link
<1>2. PICK k \in 1 .. Len(wire) :
            LET chunk == SubSeq(wire, 1, k)
            IN /\ chunk \in Seq(Symbols) /\ Len(chunk) = k
               /\ \A i \in 1 .. k : chunk[i] = wire[i]
               /\ wire' \in Seq(Symbols) /\ Len(wire') = Len(wire) - k
               /\ \A i \in 1 .. Len(wire) - k : wire'[i] = wire[k + i]
               /\ \/ chunks' = Append(chunks, chunk) /\ callback' = "idle"
                  \/ chunks' = chunks /\ callback' = "mark"
  BY Taking
<1> DEFINE chunk == SubSeq(wire, 1, k)
<1>3. /\ chunk \in Seq(Symbols) /\ Len(chunk) = k
      /\ \A i \in 1 .. k : chunk[i] = wire[i]
      /\ Len(wire') = Len(wire) - k
      /\ \A i \in 1 .. Len(wire) - k : wire'[i] = wire[k + i]
      /\ chunks' \in {chunks, Append(chunks, chunk)}
  BY <1>2
<1> HIDE DEF chunk
<1>4. PICK n \in Nat : n = Len(chunks)
  BY DEF TypeOK
<1>5. Len(wire) \in Nat /\ written \in Nat /\ k \in Nat /\ k <= Len(wire) /\ Len(wire) <= written
  BY DEF TypeOK, Pieces
<1> DEFINE e == written - Len(wire)
           f == written' - Len(wire')
<1>6. e \in Nat /\ f = e + k /\ e <= f
  BY <1>1, <1>3, <1>5
<1>7. \A i \in 1 .. k : chunk[i].at = e + i - 1
  <2>1. \A i \in 1 .. k : i \in 1 .. Len(wire)
    BY <1>5
  <2> QED BY <1>3, <2>1 DEF Pieces
<1> HIDE DEF e, f
<1>8. \A i \in 1 .. k : chunk[i].at \in Nat /\ chunk[i].at >= e /\ chunk[i].at < f
  BY <1>5, <1>6, <1>7
<1>9. /\ Len(chunks') \in {n, n + 1} /\ \A i \in 1 .. n : chunks'[i] = chunks[i]
      /\ Len(chunks') = n + 1 => chunks'[n + 1] = chunk
  <2>1. chunks \in Seq(Seq(Symbols))
    BY DEF TypeOK
  <2>2. CASE chunks' = chunks
    BY <1>4, <2>2
  <2>3. CASE chunks' = Append(chunks, chunk)
    BY <1>3, <1>4, <2>1, <2>3, AppendProperties
  <2> QED BY <1>3, <2>2, <2>3
<1>10. ASSUME NEW i \in 0 .. n, NEW p \in Nat, After(chunks, e, i, p)
       PROVE  After(chunks', f, i, p)
  <2>1. p < e /\ p < f
    BY <1>5, <1>6, <1>10 DEF After
  <2>2. ASSUME NEW j \in i + 1 .. Len(chunks'), NEW m \in 1 .. Len(chunks'[j])
        PROVE  p < chunks'[j][m].at
    <3>1. CASE j \in i + 1 .. n
      <4>1. chunks'[j] = chunks[j]
        BY <1>9, <3>1
      <4> QED BY <1>4, <1>10, <2>2, <3>1, <4>1 DEF After
    <3>2. CASE j \notin i + 1 .. n
      <4>1. j = n + 1 /\ Len(chunks') = n + 1
        BY <1>9, <3>2
      <4>2. chunks'[j][m].at \in Nat /\ chunks'[j][m].at >= e
        BY <1>3, <1>8, <1>9, <2>2, <4>1
      <4> QED BY <1>6, <2>1, <4>2
    <3> QED BY <3>1, <3>2
  <2> QED BY <2>1, <2>2 DEF After
<1>11. \A p \in Nat : Behind(hand, chunks, e, p) => Behind(hand, chunks', f, p)
  BY <1>10 DEF Behind
<1>12. Line(buffer, hand, chunks', f)
  <2>1. \A i \in 1 .. Len(buffer) : Behind(hand, chunks', f, buffer[i].at)
    BY <1>11, PlaceOf DEF Order, Sorted, Line, TypeOK, e
  <2>2. \A i \in 1 .. Len(hand) : After(chunks', f, 0, hand[i].at)
    BY <1>10, PlaceOf DEF Order, Sorted, Line, TypeOK, e
  <2>3. ASSUME NEW i \in 1 .. Len(chunks'), NEW j \in 1 .. Len(chunks'[i])
        PROVE  After(chunks', f, i, chunks'[i][j].at)
    <3>1. CASE i \in 1 .. n
      <4>1. chunks'[i] = chunks[i]
        BY <1>9, <3>1
      <4>2. chunks[i] \in Seq(Symbols)
        BY <1>4, <3>1 DEF TypeOK
      <4>3. chunks[i][j].at \in Nat /\ After(chunks, e, i, chunks[i][j].at)
        BY <1>4, <2>3, <3>1, <4>1, <4>2, PlaceOf DEF Order, Sorted, Line, e
      <4> QED BY <1>10, <3>1, <4>1, <4>3
    <3>2. CASE i \notin 1 .. n
      <4>1. i = n + 1 /\ Len(chunks') = n + 1 /\ chunks'[i] = chunk
        BY <1>9, <3>2
      <4>2. chunk[j].at < f
        BY <1>3, <1>8, <2>3, <4>1
      <4>3. i + 1 .. Len(chunks') = {}
        BY <4>1
      <4> QED BY <4>1, <4>2, <4>3 DEF After
    <3> QED BY <3>1, <3>2
  <2> QED BY <2>1, <2>2, <2>3 DEF Line
<1>13. Symbolic'
  <2>1. AllHonest(wire, whole) /\ \A i \in 1 .. n : AllHonest(chunks[i], whole)
    BY <1>4 DEF Order, Symbolic
  <2>2. AllHonest(chunk, whole)
    <3>1. \A i \in 1 .. k : i \in 1 .. Len(wire)
      BY <1>5
    <3> QED BY <1>3, <2>1, <3>1 DEF AllHonest
  <2>3. AllHonest(wire', whole)
    <3>1. \A i \in 1 .. Len(wire) - k : k + i \in 1 .. Len(wire)
      BY <1>5
    <3> QED BY <1>3, <2>1, <3>1 DEF AllHonest
  <2>4. \A i \in 1 .. Len(chunks') : AllHonest(chunks'[i], whole)
    BY <1>9, <2>1, <2>2
  <2> QED BY <1>1, <2>3, <2>4 DEF Order, Symbolic
<1>14. InLine(Found, buffer, hand, chunks', f, whole)
  <2>1. Found \in Seq(Nat)
    BY ConcatProperties DEF Found, TypeOK
  <2> QED BY <1>11, <2>1 DEF Order, Frames, InLine, e
<1> QED BY <1>1, <1>12, <1>13, <1>14 DEF Order, Sorted, Frames, Found, f


LEMMA Shifted ==
    ASSUME TypeOK, Pieces, chunks # <<>>, chunks' = Tail(chunks)
    PROVE  \E n \in Nat : /\ Len(chunks) = n + 1 /\ Len(chunks') = n
                          /\ \A i \in 1 .. n : chunks'[i] = chunks[i + 1]
<1>1. /\ Len(chunks) - 1 \in Nat /\ Len(chunks) = (Len(chunks) - 1) + 1
      /\ Len(chunks') = Len(chunks) - 1
      /\ \A i \in 1 .. Len(chunks) - 1 : chunks'[i] = chunks[i + 1]
  BY Shorter
<1> QED BY <1>1

(* The first chunk leaves the queue.                                       *)
LEMMA FirstLeaves ==
    ASSUME TypeOK, Pieces, chunks # <<>>, chunks' = Tail(chunks), NEW e \in Nat
    PROVE  /\ \A i \in 0 .. Len(chunks'), p \in Nat :
                  After(chunks, e, i + 1, p) => After(chunks', e, i, p)
           /\ \A p \in Nat : After(chunks, e, 0, p) =>
                  /\ After(chunks', e, 0, p)
                  /\ \A m \in 1 .. Len(chunks[1]) : p < chunks[1][m].at
<1>1. PICK n \in Nat : /\ Len(chunks) = n + 1 /\ Len(chunks') = n
                       /\ \A i \in 1 .. n : chunks'[i] = chunks[i + 1]
  BY Shifted
<1>2. ASSUME NEW i \in 0 .. n, NEW p \in Nat, After(chunks, e, i + 1, p)
      PROVE  After(chunks', e, i, p)
  <2>1. ASSUME NEW j \in i + 1 .. n, NEW m \in 1 .. Len(chunks'[j])
        PROVE  p < chunks'[j][m].at
    <3>1. j \in 1 .. n /\ j + 1 \in (i + 1) + 1 .. Len(chunks)
      BY <1>1
    <3>2. chunks'[j] = chunks[j + 1]
      BY <1>1, <3>1
    <3> QED BY <1>2, <2>1, <3>1, <3>2 DEF After
  <2> QED BY <1>1, <1>2, <2>1 DEF After
<1>3. ASSUME NEW p \in Nat, After(chunks, e, 0, p)
      PROVE  /\ After(chunks', e, 0, p)
             /\ \A m \in 1 .. Len(chunks[1]) : p < chunks[1][m].at
  <2>1. 1 \in 0 + 1 .. Len(chunks) /\ \A j \in (0 + 1) + 1 .. Len(chunks) : j \in 0 + 1 .. Len(chunks)
    BY <1>1
  <2>2. After(chunks, e, 0 + 1, p)
    BY <1>3, <2>1 DEF After
  <2>3. After(chunks', e, 0, p)
    BY <1>1, <1>2, <2>2
  <2> QED BY <1>3, <2>1, <2>3 DEF After
<1> QED BY <1>1, <1>2, <1>3

LEMMA WireIsNat == TypeOK /\ Pieces => written - Len(wire) \in Nat
BY DEF TypeOK, Pieces

LEMMA OrderClearing ==
    ASSUME TypeOK, Pieces, Order, ResetParser \/ Drain
    PROVE  Order'
<1> DEFINE e == written - Len(wire)
<1>1. e \in Nat
  BY WireIsNat
<1>2. UNCHANGED <<wire, written, whole, hand, Found>>
  BY DEF ResetParser, Drain, host, link, Found
<1>3. Found \in Seq(Nat) /\ \A k \in 1 .. Len(buffer) : buffer[k].at \in Nat
  BY ConcatProperties, PlaceOf DEF Found, TypeOK
<1> HIDE DEF e
<1>4. CASE ResetParser
  <2>1. buffer' = <<>> /\ chunks' = chunks /\ Len(<<>>) = 0
    BY <1>4 DEF ResetParser, backend
  <2>2. Line(<<>>, hand, chunks, e) /\ InLine(Found, <<>>, hand, chunks, e, whole) /\ AllHonest(<<>>, whole)
    BY <2>1 DEF Order, Sorted, Frames, Line, InLine, AllHonest, e
  <2> QED BY <1>2, <2>1, <2>2 DEF Order, Sorted, Symbolic, Frames, e
<1>5. CASE Drain /\ chunks = <<>>
  BY <1>2, <1>5, OrderStays DEF Drain, link
<1>6. CASE Drain /\ chunks # <<>>
  <2>1. buffer' = buffer /\ chunks' = Tail(chunks)
    BY <1>6 DEF Drain, link
  <2>2. hand = <<>> /\ Len(<<>>) = 0
    BY <1>6 DEF Drain, Pieces
  <2>3. PICK n \in Nat : /\ Len(chunks) = n + 1 /\ Len(chunks') = n
                         /\ \A i \in 1 .. n : chunks'[i] = chunks[i + 1]
    BY <1>6, <2>1, Shifted
  <2>4. \A p \in Nat : Behind(hand, chunks, e, p) => Behind(hand, chunks', e, p)
    BY <1>1, <1>6, <2>1, FirstLeaves DEF Behind
  <2>5. \A i \in 1 .. n : \A k \in 1 .. Len(chunks'[i]) : After(chunks', e, i, chunks'[i][k].at)
    <3> TAKE i \in 1 .. n
    <3> TAKE k \in 1 .. Len(chunks'[i])
    <3>1. i + 1 \in 1 .. Len(chunks) /\ chunks'[i] = chunks[i + 1] /\ i \in 0 .. n
      BY <2>3
    <3>2. After(chunks, e, i + 1, chunks[i + 1][k].at)
      BY <3>1 DEF Order, Sorted, Line, e
    <3>3. chunks \in Seq(Seq(Symbols))
      BY DEF TypeOK
    <3>4. chunks[i + 1] \in Seq(Symbols)
      BY <3>1, <3>3
    <3>5. chunks[i + 1][k].at \in Nat
      BY <3>1, <3>4, PlaceOf
    <3> QED BY <1>1, <1>6, <2>1, <2>3, <3>1, <3>2, <3>5, FirstLeaves
  <2>6. Line(buffer, hand, chunks', e)
    <3>1. \A k \in 1 .. Len(hand) : After(chunks', e, 0, hand[k].at)
      BY <2>2
    <3>2. \A k \in 1 .. Len(buffer) : Behind(hand, chunks', e, buffer[k].at)
      BY <1>3, <2>4 DEF Order, Sorted, Line, e
    <3> QED BY <2>3, <2>5, <3>1, <3>2 DEF Line
  <2>7. InLine(Found, buffer, hand, chunks', e, whole)
    BY <1>3, <2>4 DEF Order, Frames, InLine, e
  <2>8. \A i \in 1 .. n : AllHonest(chunks'[i], whole)
    <3> TAKE i \in 1 .. n
    <3>1. i + 1 \in 1 .. Len(chunks) /\ chunks'[i] = chunks[i + 1]
      BY <2>3
    <3> QED BY <3>1 DEF Order, Symbolic
  <2> QED BY <1>2, <2>1, <2>3, <2>6, <2>7, <2>8 DEF Order, Sorted, Symbolic, Frames, e
<1> QED BY <1>4, <1>5, <1>6

LEMMA OrderFetching ==
    ASSUME TypeOK, Pieces, Order, Fetch
    PROVE  Order'
<1> DEFINE e == written - Len(wire)
<1>1. e \in Nat
  BY WireIsNat
<1>2. UNCHANGED <<wire, written, whole, buffer, Found>>
  BY DEF Fetch, host, Found
<1>3. Found \in Seq(Nat) /\ \A k \in 1 .. Len(buffer) : buffer[k].at \in Nat
  BY ConcatProperties, PlaceOf DEF Found, TypeOK
<1> HIDE DEF e
<1>4. CASE chunks = <<>>
  BY <1>2, <1>4, OrderStays DEF Fetch
<1>5. CASE chunks # <<>>
  <2>1. hand' = Head(chunks) /\ chunks' = Tail(chunks)
    BY <1>5 DEF Fetch
  <2>2. PICK n \in Nat : /\ Len(chunks) = n + 1 /\ Len(chunks') = n
                         /\ \A i \in 1 .. n : chunks'[i] = chunks[i + 1]
    BY <1>5, <2>1, Shifted
  <2>3. hand' = chunks[1] /\ chunks[1] \in Seq(Symbols)
    BY <1>5, <2>1, Shorter
  <2>4. \A p \in Nat : Behind(hand, chunks, e, p) => Behind(hand', chunks', e, p)
    BY <1>1, <1>5, <2>1, <2>3, FirstLeaves DEF Behind
  <2>5. ASSUME NEW i \in 0 .. n, NEW k \in 1 .. Len(chunks[i + 1])
        PROVE  After(chunks', e, i, chunks[i + 1][k].at)
    <3>1. i + 1 \in 1 .. Len(chunks)
      BY <2>2
    <3>2. After(chunks, e, i + 1, chunks[i + 1][k].at)
      BY <2>5, <3>1 DEF Order, Sorted, Line, e
    <3>3. chunks[i + 1] \in Seq(Symbols)
      BY <3>1 DEF TypeOK
    <3>4. chunks[i + 1][k].at \in Nat
      BY <2>5, <3>3, PlaceOf
    <3> QED BY <1>1, <1>5, <2>1, <2>2, <3>2, <3>4, FirstLeaves
  <2>6. Line(buffer, hand', chunks', e)
    <3>1. \A k \in 1 .. Len(hand') : After(chunks', e, 0, hand'[k].at)
      BY <2>2, <2>3, <2>5
    <3>2. \A i \in 1 .. n : \A k \in 1 .. Len(chunks'[i]) : After(chunks', e, i, chunks'[i][k].at)
      BY <2>2, <2>5
    <3>3. \A k \in 1 .. Len(buffer) : Behind(hand', chunks', e, buffer[k].at)
      BY <1>3, <2>4 DEF Order, Sorted, Line, e
    <3> QED BY <2>2, <3>1, <3>2, <3>3 DEF Line
  <2>7. InLine(Found, buffer, hand', chunks', e, whole)
    BY <1>3, <2>4 DEF Order, Frames, InLine, e
  <2>8. ASSUME NEW i \in 0 .. n PROVE AllHonest(chunks[i + 1], whole)
    <3>1. i + 1 \in 1 .. Len(chunks)
      BY <2>2
    <3> QED BY <3>1 DEF Order, Symbolic
  <2>9. AllHonest(hand', whole) /\ \A i \in 1 .. n : AllHonest(chunks'[i], whole)
    BY <2>2, <2>3, <2>8
  <2> QED BY <1>2, <2>2, <2>6, <2>7, <2>9 DEF Order, Sorted, Symbolic, Frames, e
<1> QED BY <1>4, <1>5


(* What a frame found adds to those found before.                          *)
LEMMA OneMore ==
    ASSUME NEW f \in Seq(Nat), NEW p \in Nat, Ascending(f), \A i \in 1 .. Len(f) : f[i] < p
    PROVE  Ascending(Append(f, p))
<1> DEFINE g == Append(f, p)
<1>1. /\ g \in Seq(Nat) /\ Len(g) = Len(f) + 1 /\ Len(f) \in Nat
      /\ (\A i \in 1 .. Len(f) : g[i] = f[i]) /\ g[Len(f) + 1] = p
  BY AppendProperties
<1>2. DOMAIN g = 1 .. Len(g) /\ DOMAIN f = 1 .. Len(f)
  BY <1>1
<1> HIDE DEF g
<1>3. ASSUME NEW i \in 1 .. Len(g), NEW j \in 1 .. Len(g), i < j
      PROVE  g[i] < g[j]
  <2>1. i \in 1 .. Len(f) /\ (j \in 1 .. Len(f) \/ j = Len(f) + 1)
    <3>1. Len(f) \in Nat /\ Len(g) = Len(f) + 1 /\ i < j
      BY <1>1, <1>3
    <3> QED BY <3>1
  <2>2. CASE j \in 1 .. Len(f)
    BY <1>1, <1>2, <1>3, <2>1, <2>2 DEF Ascending
  <2>3. CASE j = Len(f) + 1
    BY <1>1, <2>1, <2>3
  <2> QED BY <2>1, <2>2, <2>3
<1> QED BY <1>2, <1>3 DEF Ascending, g

LEMMA OrderParsing ==
    ASSUME TypeOK, Pipe, Order, Parse
    PROVE  Order'
<1> DEFINE e == written - Len(wire)
           s == hand[1]
           c == Append(buffer, s)
<1>1. UNCHANGED <<wire, written, whole, chunks, handled>>
  BY DEF Parse, host, backend
<1>2. /\ hand # <<>> /\ hand \in Seq(Symbols) /\ s \in Symbols
      /\ \/ hand' = Tail(hand) /\ buffer' \in {<<>>, c}
         \/ hand' = <<>> /\ buffer' = <<>>
      /\ \/ rx' = rx
         \/ FrameReady(c) /\ buffer' = <<>> /\ rx' = Append(rx, c[1].at)
  BY Byte
<1>3. buffer \in Seq(Symbols) /\ rx \in Seq(Nat) /\ handled \in Seq(Nat) /\ Found \in Seq(Nat)
  BY ConcatProperties DEF TypeOK, Found
<1>4. /\ Len(hand) \in Nat \ {0} /\ Len(Tail(hand)) = Len(hand) - 1
      /\ \A i \in 1 .. Len(hand) - 1 : Tail(hand)[i] = hand[i + 1]
  BY <1>2, Rest
<1>5. /\ c \in Seq(Symbols) /\ Len(c) = Len(buffer) + 1 /\ Len(buffer) \in Nat
      /\ (\A i \in 1 .. Len(buffer) : c[i] = buffer[i]) /\ c[Len(buffer) + 1] = s
  BY <1>2, <1>3, AppendProperties
<1>6. Len(<<>>) = 0 /\ s.at \in Nat
  BY <1>2 DEF Symbols
<1>7. \A k \in 1 .. Len(hand) : hand[k].at = s.at + k - 1
  BY DEF Pipe, Pieces, Run
<1>8. /\ Line(buffer, hand, chunks, e) /\ InLine(Found, buffer, hand, chunks, e, whole)
      /\ AllHonest(hand, whole) /\ AllHonest(buffer, whole)
  BY DEF Order, Sorted, Frames, Symbolic
<1> HIDE DEF e, s, c
<1>9. \A k \in 1 .. Len(hand') : k + 1 \in 1 .. Len(hand) /\ hand'[k] = hand[k + 1]
  BY <1>2, <1>4, <1>6
<1>10. /\ \A p : Behind(hand, chunks, e, p) => Behind(hand', chunks, e, p)
       /\ \A k \in 1 .. Len(hand') : After(chunks, e, 0, hand'[k].at) /\ Honest(hand'[k], whole)
  BY <1>8, <1>9 DEF Behind, Line, AllHonest
<1>11. Behind(hand', chunks, e, s.at) /\ Honest(s, whole)
  <2>1. 1 \in 1 .. Len(hand)
    BY <1>4
  <2>2. After(chunks, e, 0, s.at) /\ Honest(s, whole)
    BY <1>8, <2>1 DEF Line, AllHonest, s
  <2>3. ASSUME NEW k \in 1 .. Len(hand') PROVE s.at < hand'[k].at
    <3>1. hand'[k].at = s.at + (k + 1) - 1 /\ k \in Nat \ {0}
      BY <1>7, <1>9
    <3> QED BY <1>6, <3>1
  <2> QED BY <2>2, <2>3 DEF Behind
<1>12. \A i \in 1 .. Len(c) : Behind(hand', chunks, e, c[i].at) /\ Honest(c[i], whole)
  <2> TAKE i \in 1 .. Len(c)
  <2>1. CASE i \in 1 .. Len(buffer)
    BY <1>5, <1>8, <1>10, <2>1 DEF Line, AllHonest
  <2>2. CASE i = Len(buffer) + 1
    BY <1>5, <1>11, <2>2
  <2> QED BY <1>5, <2>1, <2>2
<1>13. /\ \A i \in 1 .. Len(buffer') : Behind(hand', chunks, e, buffer'[i].at)
       /\ AllHonest(buffer', whole)
  <2>1. CASE buffer' = <<>>
    BY <1>6, <2>1 DEF AllHonest
  <2>2. CASE buffer' = c
    BY <1>12, <2>2 DEF AllHonest
  <2> QED BY <1>2, <2>1, <2>2
<1>14. Sorted'
  BY <1>1, <1>8, <1>10, <1>13 DEF Sorted, Line, e
<1>15. Symbolic'
  BY <1>1, <1>10, <1>13 DEF Order, Symbolic, AllHonest
<1>16. \A i \in 1 .. Len(Found) :
          /\ Found[i] \in Nat /\ Behind(hand', chunks, e, Found[i])
          /\ \A k \in 1 .. Len(c) : Found[i] < c[k].at
          /\ \E x \in whole : x[1] = Found[i]
  <2> TAKE i \in 1 .. Len(Found)
  <2>1. /\ Found[i] \in Nat /\ Behind(hand, chunks, e, Found[i])
        /\ \A k \in 1 .. Len(buffer) : Found[i] < buffer[k].at
        /\ \E x \in whole : x[1] = Found[i]
    BY <1>3, <1>8 DEF InLine
  <2>2. Found[i] < s.at
    <3>1. 1 \in 1 .. Len(hand)
      BY <1>4
    <3> QED BY <2>1, <3>1 DEF Behind, s
  <2>3. \A k \in 1 .. Len(c) : k \in 1 .. Len(buffer) \/ k = Len(buffer) + 1
    BY <1>5
  <2>4. \A k \in 1 .. Len(c) : Found[i] < c[k].at
    BY <1>5, <2>1, <2>2, <2>3
  <2> QED BY <1>10, <2>1, <2>4
<1>17. CASE rx' = rx
  <2>1. Found' = Found
    BY <1>1, <1>17 DEF Found
  <2>2. \A i \in 1 .. Len(Found) : \A k \in 1 .. Len(buffer') : Found[i] < buffer'[k].at
    BY <1>2, <1>6, <1>16
  <2>3. InLine(Found, buffer', hand', chunks, e, whole)
    BY <1>8, <1>16, <2>2 DEF InLine
  <2> QED BY <1>1, <1>14, <1>15, <2>1, <2>3 DEF Order, Frames, e
<1>18. CASE FrameReady(c) /\ buffer' = <<>> /\ rx' = Append(rx, c[1].at)
  <2> DEFINE p == c[1].at
  <2>1. c[1].of \in whole /\ p = c[1].of[1] /\ 1 \in 1 .. Len(c) /\ p \in Nat
    <3>1. AllHonest(c, whole)
      BY <1>12 DEF AllHonest
    <3>2. c[1].of \in whole /\ p = c[1].of[1]
      BY <1>5, <1>18, <3>1, ReadyIsWhole
    <3>3. 1 \in 1 .. Len(c)
      BY <1>5
    <3> QED BY <1>5, <3>2, <3>3, PlaceOf
  <2> HIDE DEF p
  <2>2. Found' = Append(Found, p)
    BY <1>1, <1>3, <1>18, <2>1, FoundOne DEF Found, p
  <2>3. \A i \in 1 .. Len(Found) : Found[i] < p
    BY <1>16, <2>1 DEF p
  <2>4. Ascending(Append(Found, p))
    BY <1>3, <1>8, <2>1, <2>3, OneMore DEF InLine
  <2>5. /\ Len(Append(Found, p)) = Len(Found) + 1 /\ Len(Found) \in Nat
        /\ \A i \in 1 .. Len(Found) : Append(Found, p)[i] = Found[i]
        /\ Append(Found, p)[Len(Found) + 1] = p
    BY <1>3, <2>1, AppendProperties
  <2>6. Behind(hand', chunks, e, p)
    BY <1>12, <2>1 DEF p
  <2>7. ASSUME NEW i \in 1 .. Len(Append(Found, p))
        PROVE  /\ Behind(hand', chunks, e, Append(Found, p)[i])
               /\ \E x \in whole : x[1] = Append(Found, p)[i]
    <3>1. CASE i \in 1 .. Len(Found)
      BY <1>16, <2>5, <3>1
    <3>2. CASE i = Len(Found) + 1
      BY <2>1, <2>5, <2>6, <3>2
    <3> QED BY <2>5, <3>1, <3>2
  <2>8. InLine(Append(Found, p), <<>>, hand', chunks, e, whole)
    BY <1>6, <2>4, <2>7 DEF InLine
  <2> QED BY <1>1, <1>14, <1>15, <1>18, <2>2, <2>8 DEF Order, Frames, e
<1> QED BY <1>2, <1>17, <1>18

LEMMA OrderHandling ==
    ASSUME TypeOK, Order, HandleUsb
    PROVE  Order'
<1>1. UNCHANGED <<wire, written, whole, chunks, hand, buffer>>
  BY DEF HandleUsb, host, backend
<1>2. CASE rx = <<>> /\ UNCHANGED <<rx, handled>>
  BY <1>1, <1>2, OrderStays DEF Found
<1>3. CASE rx # <<>> /\ rx' = Tail(rx) /\ handled' = Append(handled, Head(rx))
  <2>1. handled \in Seq(Nat) /\ rx \in Seq(Nat)
    BY DEF TypeOK
  <2>2. Found' = Found
    BY <1>3, <2>1, Taken1 DEF Found
  <2> QED BY <1>1, <2>2, OrderStays
<1> QED BY <1>2, <1>3 DEF HandleUsb

LEMMA OrderBegins == Init => Order
<1> SUFFICES ASSUME Init PROVE Order
  OBVIOUS
<1>1. Len(<<>>) = 0 /\ <<>> \in Seq(Nat)
  BY EmptySeq
<1>2. Found = <<>> /\ DOMAIN Found = {}
  BY <1>1, ConcatEmptySeq DEF Init, Found
<1> QED BY <1>1, <1>2 DEF Init, Order, Sorted, Line, Symbolic, AllHonest, Frames, InLine, Ascending


(* What is written is honest: a frame, or a part that lacks its end.       *)
LEMMA FrameIsHonest ==
    ASSUME NEW p \in Nat, NEW body \in Written, NEW junk \in Junk, NEW w
    PROVE  LET f == Frame(p, body, junk)
           IN /\ f[1].of \in w => AllHonest(f, w)
              /\ \A k \in 1 .. Len(f) - 1 : AllHonest(SubSeq(f, 1, k), w)
<1> DEFINE f == Frame(p, body, junk)
           q == p + Len(f) - 1
<1>1. f \in Seq(Symbols) /\ Len(f) \in Nat \ {0}
  BY FrameFacts
<1>2. PICK n \in Nat : Len(f) = n /\ n # 0 /\ q = p + n - 1
  BY <1>1
<1>3. \A i \in 1 .. Len(f) : f[i].at = p + i - 1
  BY FrameFacts
<1>4. \A i \in 1 .. Len(f) : f[i].of = <<p, q>>
  BY FrameFacts
<1>5. \A i \in 1 .. Len(f) : i = 3 => f[i].n + Overhead = Len(f)
  BY FrameFacts
<1> HIDE DEF f, q
<1>6. \A i \in 1 .. n : f[i] \in Symbols /\ f[i].at = p + i - 1 /\ f[i].of = <<p, q>>
  BY <1>1, <1>2, <1>3, <1>4
<1>7. \A i \in 1 .. n : f[i].of[1] = p /\ f[i].of[2] = q
  BY <1>6
<1>8. ASSUME NEW i \in 1 .. n, f[i].at = f[i].of[1] + 2
      PROVE  f[i].of[1] + f[i].n + Overhead = f[i].of[2] + 1
  <2>1. p + i - 1 = p + 2
    BY <1>6, <1>7, <1>8
  <2>2. i = 3
    BY <2>1
  <2>3. f[i].n + Overhead = n
    <3>1. i \in 1 .. Len(f) /\ Len(f) = n
      BY <1>2
    <3> QED BY <1>5, <2>2, <3>1
  <2>4. f[i].n \in Nat
    BY <1>6 DEF Symbols
  <2>5. p + f[i].n + Overhead = q + 1
    BY <1>2, <2>3, <2>4 DEF Overhead
  <2> QED BY <1>7, <2>5
<1>9. f[1].of \in w => AllHonest(f, w)
  <2>1. 1 \in 1 .. n
    BY <1>2
  <2>2. \A i \in 1 .. n : f[i].of = f[1].of
    <3>1. f[1].of = <<p, q>>
      BY <1>6, <2>1
    <3> QED BY <1>6, <3>1
  <2> QED BY <1>2, <1>8, <2>2 DEF AllHonest, Honest
<1>10. ASSUME NEW k \in 1 .. Len(f) - 1
      PROVE  AllHonest(SubSeq(f, 1, k), w)
  <2>1. k \in 1 .. Len(f) /\ \A i \in 1 .. k : i \in 1 .. n /\ i <= n - 1
    BY <1>2
  <2>2. /\ Len(SubSeq(f, 1, k)) = k
        /\ \A i \in 1 .. k : SubSeq(f, 1, k)[i] = f[i]
    BY <1>1, <2>1, Cutting
  <2>3. \A i \in 1 .. k : f[i].at # f[i].of[2]
    <3> TAKE i \in 1 .. k
    <3>1. i \in 1 .. n /\ i <= n - 1
      BY <2>1
    <3>2. p + i - 1 # q
      BY <1>2, <3>1
    <3>3. f[i].at = p + i - 1 /\ f[i].of[2] = q
      BY <1>6, <1>7, <3>1
    <3> QED BY <3>2, <3>3
  <2> QED BY <1>8, <2>1, <2>2, <2>3 DEF AllHonest, Honest
<1> QED BY <1>9, <1>10 DEF f

LEMMA OrderStep == TypeOK /\ Pipe /\ Order /\ [Next]_vars => Order'
<1> SUFFICES ASSUME TypeOK, Pipe, Order, [Next]_vars
             PROVE  Order'
  OBVIOUS
<1>0. Pieces /\ written \in Nat
  BY DEF Pipe, TypeOK
<1>1. CASE Write
  <2>1. PICK body \in Written, junk \in Junk :
           LET f == Frame(written, body, junk) IN Put(f) /\ whole' = whole \cup {f[1].of}
    BY <1>1 DEF Write
  <2> DEFINE f == Frame(written, body, junk)
  <2>2. f \in Seq(Symbols)
    BY <1>0, FrameFacts
  <2>3. f[1].of \in whole' => AllHonest(f, whole')
    BY <1>0, FrameIsHonest
  <2>4. Put(f) /\ whole' = whole \cup {f[1].of}
    BY <2>1
  <2> HIDE DEF f
  <2> QED BY <2>2, <2>3, <2>4, OrderWriting
<1>2. CASE WriteCut
  <2>1. PICK body \in Written, junk \in Junk :
           LET f == Frame(written, body, junk)
           IN \E k \in 1 .. Len(f) - 1 : Put(SubSeq(f, 1, k))
    BY <1>2 DEF WriteCut
  <2> DEFINE f == Frame(written, body, junk)
  <2>2. f \in Seq(Symbols) /\ Len(f) \in Nat \ {0}
    BY <1>0, FrameFacts
  <2>3. \A k \in 1 .. Len(f) - 1 : AllHonest(SubSeq(f, 1, k), whole)
    BY <1>0, FrameIsHonest
  <2>4. PICK k \in 1 .. Len(f) - 1 : Put(SubSeq(f, 1, k))
    BY <2>1
  <2> HIDE DEF f
  <2>5. SubSeq(f, 1, k) \in Seq(Symbols)
    <3>1. k \in 1 .. Len(f)
      BY <2>2
    <3> QED BY <2>2, <3>1, Cutting
  <2>6. whole' = whole
    BY <1>2 DEF WriteCut
  <2> QED BY <2>3, <2>4, <2>5, <2>6, OrderWriting
<1>3. CASE Receive
  BY <1>0, <1>3, OrderReading
<1>4. CASE ResetParser \/ Drain
  BY <1>0, <1>4, OrderClearing
<1>5. CASE Fetch
  BY <1>0, <1>5, OrderFetching
<1>6. CASE Parse
  BY <1>6, OrderParsing
<1>7. CASE HandleUsb
  BY <1>7, OrderHandling
<1>8. CASE Mark \/ Check \/ ServeRadio \/ HandleAir \/ Heartbeat \/ Arrive \/ TxDone \/ UNCHANGED vars
  <2>1. UNCHANGED <<wire, written, whole, chunks, hand, buffer, handled, rx>>
    BY <1>8 DEF Mark, Check, ServeRadio, HandleAir, Heartbeat, Arrive, TxDone, vars,
                host, backend, link
  <2> QED BY <2>1, OrderStays DEF Found
<1> QED BY <1>1, <1>2, <1>3, <1>4, <1>5, <1>6, <1>7, <1>8 DEF Next, Poll

(* What the gateway head takes up for the radio are frames that the host   *)
(* wrote in full, each once and in the order written, whatever was cut     *)
(* short by the host or dropped by a full queue in between.                *)
THEOREM FramesInOrder == Spec => []InOrder
<1>1. TypeOK /\ Order => InOrder
  <2> SUFFICES ASSUME TypeOK, Order
               PROVE  InOrder
    OBVIOUS
  <2>1. handled \in Seq(Nat) /\ rx \in Seq(Nat)
    BY DEF TypeOK
  <2>2. /\ Len(Found) = Len(handled) + Len(rx) /\ Len(handled) \in Nat /\ Len(rx) \in Nat
        /\ \A i \in 1 .. Len(handled) + Len(rx) :
              Found[i] = IF i <= Len(handled) THEN handled[i] ELSE rx[i - Len(handled)]
    BY <2>1, ConcatProperties DEF Found
  <2>3. \A i \in 1 .. Len(handled) : i \in 1 .. Len(Found) /\ Found[i] = handled[i]
    BY <2>2
  <2>4. \A i \in 1 .. Len(Found) : \E x \in whole : x[1] = Found[i]
    BY DEF Order, Frames, InLine
  <2>5. \A i \in DOMAIN handled : \E x \in whole : x[1] = handled[i]
    <3>1. DOMAIN handled = 1 .. Len(handled)
      BY <2>1
    <3> QED BY <2>3, <2>4, <3>1
  <2>6. Ascending(handled \o rx)
    BY DEF Order, Frames, InLine, Found
  <2> QED BY <2>5, <2>6 DEF InOrder
<1>2. Spec => [](TypeOK /\ Pipe /\ Order)
  BY Begin, OrderBegins, Step, OrderStep, PTL DEF Spec
<1> QED BY <1>1, <1>2, PTL

-----------------------------------------------------------------------------
(* What is lost.                                                           *)

Items(s) == {s[i] : i \in 1 .. Len(s)}

\* What was written and has not come to the parser.
Coming == Items(wire) \cup Items(hand) \cup UNION {Items(chunks[i]) : i \in 1 .. Len(chunks)}

\* Here a frame begins, if one is written.
Boundary(p) == p = 0 \/ (\E c \in cuts : c + 1 = p) \/ \E f \in whole : f[2] + 1 = p

\* A symbol reads as what it is, unless it is a stray one, and is of the frame
\* that it stands in; of a frame that is not whole it comes before the cut.
Telling(s) ==
    /\ s.at < written
    /\ s.of[1] <= s.at /\ s.at <= s.of[2] /\ s.of[2] < s.of[1] + MaxTotal
    /\ s.is = "first" => s.at = s.of[1] \/ s.at \in strays
    /\ s.at = s.of[1] => s.is = "first"
    /\ s.at = s.of[1] + 1 => s.is = "second"
    /\ s.at = s.of[1] + 2 => s.of[1] + s.n + Overhead = s.of[2] + 1
    /\ Boundary(s.of[1]) /\ \A p \in s.of[1] + 1 .. s.at : ~Boundary(p)
    /\ \A f \in whole : f[1] <= s.at /\ s.at <= f[2] => s.of = f
    /\ \/ s.of \in whole
       \/ \E c \in cuts : /\ s.at <= c /\ c < s.of[2]
                          /\ \A f \in whole : f[1] <= s.at \/ c < f[1]

\* The frames and the cuts, one after the other.
Layout ==
    /\ Boundary(written)
    /\ \A c \in cuts : c < written
    /\ \A f \in whole : f[1] + 3 <= f[2] /\ f[2] < written /\ f[2] < f[1] + MaxTotal
    /\ \A f, g \in whole : f = g \/ f[2] < g[1] \/ g[2] < f[1]

Script == Layout /\ \A s \in Coming \cup Items(buffer) : Telling(s)

\* All that is before N has come to the parser or was dropped, and no more.
Cursor(N) ==
    /\ N <= written
    /\ \A s \in Coming : N <= s.at
    /\ \A p \in N .. written - 1 : (\E s \in Coming : s.at = p) \/ p \in gone

\* The buffer begins like a frame and is not yet a whole one.
Growing(b) ==
    b # <<>> =>
        /\ b[1].is = "first"
        /\ Len(b) >= 3 => Overhead + b[3].n <= MaxTotal /\ Len(b) < Overhead + b[3].n

\* It ends at N, if nothing was dropped within its length.
Reaching(b, lost, N) ==
    b # <<>> => \/ Run(b) /\ b[1].at + Len(b) = N
                \/ \E c \in lost : N <= c + Len(b) /\ c < N

\* Unless something was cut or dropped, the parser is in step with the frames.
InStep(N) ==
    (\A c \in gone \cup cuts : N <= c) =>
        \/ buffer = <<>> /\ Boundary(N)
        \/ /\ buffer # <<>> /\ Boundary(buffer[1].at)
           /\ \A p \in buffer[1].at + 1 .. N : ~Boundary(p)

Near(f, N) == \E c \in gone \cup cuts \cup strays : f[1] < c + MaxTotal /\ c < N

\* A frame that the parser is in, it has from its beginning, or there is a reason
\* near.
InFrame(N) ==
    \A f \in whole : f[1] < N /\ N <= f[2] =>
        \/ Near(f, N)
        \/ buffer # <<>> /\ buffer[1].at = f[1] /\ Run(buffer) /\ f[1] + Len(buffer) = N

Missed(N) ==
    \A f \in whole : f[2] < N /\ f[1] \notin Got =>
        /\ \E c \in gone \cup cuts : c <= f[2]
        /\ Near(f, f[2] + 1)

Tracked(N) ==
    /\ Cursor(N) /\ Growing(buffer) /\ Reaching(buffer, gone, N)
    /\ InStep(N) /\ InFrame(N) /\ Missed(N)

Track == Script /\ \E N \in Nat : Tracked(N)

LEMMA ComingAre ==
    ASSUME TypeOK
    PROVE  \A s \in Coming : s \in Symbols
<1>1. \A t \in Seq(Symbols) : \A s \in Items(t) : s \in Symbols
  BY DEF Items
<1>2. /\ wire \in Seq(Symbols) /\ hand \in Seq(Symbols)
      /\ \A i \in 1 .. Len(chunks) : chunks[i] \in Seq(Symbols)
  BY DEF TypeOK
<1> QED BY <1>1, <1>2 DEF Coming

LEMMA ItemsWait ==
    ASSUME TypeOK
    PROVE  \A s \in Coming : s.at \in Waiting
<1>1. \A t \in Seq(Symbols) : \A s \in Items(t) : s.at \in Positions(t)
  BY DEF Items, Positions
<1>2. /\ wire \in Seq(Symbols) /\ hand \in Seq(Symbols)
      /\ DOMAIN chunks = 1 .. Len(chunks)
      /\ \A i \in 1 .. Len(chunks) : chunks[i] \in Seq(Symbols)
  BY DEF TypeOK
<1>3. ASSUME NEW i \in 1 .. Len(chunks), NEW s \in Items(chunks[i])
      PROVE  s.at \in Waiting
  <2>1. s.at \in Positions(chunks[i])
    BY <1>1, <1>2
  <2> QED BY <1>2, <2>1 DEF Waiting
<1>4. ASSUME NEW s \in Items(wire) \cup Items(hand)
      PROVE  s.at \in Waiting
  <2>1. s.at \in Positions(wire) \cup Positions(hand)
    BY <1>1, <1>2
  <2> QED BY <2>1 DEF Waiting
<1> QED BY <1>3, <1>4 DEF Coming

LEMMA TrackTells == TypeOK /\ Track => LossIsNear
<1> SUFFICES ASSUME TypeOK, Track, NEW f \in Lost
             PROVE  /\ \E c \in gone \cup cuts : c <= f[2]
                    /\ \E c \in gone \cup cuts \cup strays : f[1] - MaxTotal < c /\ c <= f[2]
  BY DEF LossIsNear
<1>1. PICK N \in Nat : Tracked(N)
  BY DEF Track
<1>2. f \in whole /\ f[1] \notin Got /\ f[1] \in Nat /\ f[2] \in Nat /\ MaxTotal \in Nat \ {0}
  BY GatewayHeadAssumption DEF Lost, TypeOK
<1>3. gone \cup cuts \cup strays \subseteq Nat
  BY DEF TypeOK
<1>4. CASE f[2] < N
  <2>1. /\ \E c \in gone \cup cuts : c <= f[2]
        /\ \E c \in gone \cup cuts \cup strays : f[1] < c + MaxTotal /\ c < f[2] + 1
    BY <1>1, <1>2, <1>4 DEF Tracked, Missed, Near
  <2> QED BY <1>2, <1>3, <2>1
<1>5. CASE N <= f[2]
  <2>1. f[2] < written /\ f[1] + 3 <= f[2] /\ written \in Nat
    BY <1>2 DEF Track, Script, Layout, TypeOK
  <2>2. f[2] \in N .. written - 1
    BY <1>2, <1>5, <2>1
  <2>3. \A s \in Coming : s.at # f[2]
    <3>1. \A p \in Waiting : p \in Nat /\ p > f[2]
      <4>1. \A p \in Waiting : p > f[2]
        BY DEF Lost
      <4>2. \A p \in Waiting : p \in Nat
        BY Places DEF Waiting, TypeOK
      <4> QED BY <4>1, <4>2
    <3>2. \A s \in Coming : s.at \in Waiting
      BY ItemsWait
    <3> QED BY <1>2, <3>1, <3>2
  <2>4. f[2] \in gone
    BY <1>1, <2>2, <2>3 DEF Tracked, Cursor
  <2>5. f[1] - MaxTotal < f[2] /\ f[2] <= f[2]
    BY <1>2, <2>1
  <2> QED BY <2>4, <2>5
<1> QED BY <1>2, <1>4, <1>5

(* Dropping what comes, or what is in the buffer, leaves the parser where  *)
(* it is, with a reason for what it misses.                                *)
LEMMA TrackDropping ==
    ASSUME TypeOK, TypeOK', NEW N \in Nat, Tracked(N),
           UNCHANGED <<whole, cuts, strays, written>>, Got' = Got, gone \subseteq gone',
           Coming' \subseteq Coming, \A s \in Coming : s \in Coming' \/ s.at \in gone',
           buffer' = buffer \/ (buffer' = <<>> /\ \A i \in 1 .. Len(buffer) : buffer[i].at \in gone')
    PROVE  Tracked(N)'
<1>1. Cursor(N)'
  <2>1. Cursor(N)
    BY DEF Tracked
  <2> QED BY <2>1 DEF Cursor
<1>2. Growing(buffer)'
  BY DEF Tracked, Growing
<1>3. Reaching(buffer, gone, N)'
  BY DEF Tracked, Reaching, Run
<1>4. \A p : Boundary(p)' <=> Boundary(p)
  BY DEF Boundary
<1>5. \A f : Near(f, N) => Near(f, N)'
  BY DEF Near
<1>6. /\ gone \subseteq Nat /\ MaxTotal \in Nat \ {0} /\ whole \subseteq Nat \X Nat
      /\ Len(buffer) \in Nat /\ \A i \in 1 .. Len(buffer) : buffer[i].at \in Nat
  BY PlaceOf, GatewayHeadAssumption DEF TypeOK
<1>7. ASSUME buffer # <<>>, buffer' # buffer
      PROVE  buffer[1].at \in gone' /\ Len(buffer) > 0
  <2>1. Len(buffer) > 0
    BY <1>6, <1>7, EmptySeq DEF TypeOK
  <2> QED BY <1>6, <1>7, <2>1
<1>8. InStep(N)'
  <2>1. CASE buffer' = buffer
    BY <1>4, <2>1 DEF Tracked, InStep
  <2>2. CASE buffer' # buffer
    <3> SUFFICES ASSUME \A c \in gone' \cup cuts : N <= c
                 PROVE  buffer' = <<>> /\ Boundary(N)'
      BY DEF InStep
    <3>1. \A c \in gone \cup cuts : N <= c
      OBVIOUS
    <3>2. CASE buffer = <<>>
      BY <1>4, <2>2, <3>1, <3>2 DEF Tracked, InStep
    <3>3. CASE buffer # <<>>
      <4>1. buffer[1].at + Len(buffer) = N
        BY <1>6, <3>1, <3>3 DEF Tracked, Reaching
      <4>2. N <= buffer[1].at
        BY <1>7, <2>2, <3>3
      <4> QED BY <1>6, <1>7, <2>2, <3>3, <4>1, <4>2
    <3> QED BY <3>2, <3>3
  <2> QED BY <2>1, <2>2
<1>9. InFrame(N)'
  <2> SUFFICES ASSUME NEW f \in whole, f[1] < N, N <= f[2], ~Near(f, N)'
               PROVE  buffer' # <<>> /\ buffer'[1].at = f[1] /\ Run(buffer)' /\ f[1] + Len(buffer') = N
    BY DEF InFrame
  <2>1. buffer # <<>> /\ buffer[1].at = f[1] /\ Run(buffer) /\ f[1] + Len(buffer) = N
    BY <1>5 DEF Tracked, InFrame
  <2>2. buffer' = buffer
    <3> SUFFICES ASSUME buffer' # buffer PROVE FALSE
      OBVIOUS
    <3>1. f[1] \in gone'
      BY <1>7, <2>1
    <3>2. f[1] < f[1] + MaxTotal
      BY <1>6
    <3> QED BY <3>1, <3>2 DEF Near
  <2> QED BY <2>1, <2>2 DEF Run
<1>10. Missed(N)'
  <2> SUFFICES ASSUME NEW f \in whole, f[2] < N, f[1] \notin Got
               PROVE  (\E c \in gone' \cup cuts : c <= f[2]) /\ Near(f, f[2] + 1)'
    BY DEF Missed
  <2>1. (\E c \in gone \cup cuts : c <= f[2]) /\ Near(f, f[2] + 1)
    BY DEF Tracked, Missed
  <2> QED BY <2>1 DEF Near
<1> QED BY <1>1, <1>2, <1>3, <1>8, <1>9, <1>10 DEF Tracked

(* What a symbol does to a buffer that grows.                              *)
LEMMA Grows ==
    ASSUME NEW b \in Seq(Symbols), NEW s \in Symbols, Growing(b),
           NEW t, t = Taken(b, s), NEW k, k = Kept(t)
    PROVE  /\ k \in {<<>>, Append(b, s)} /\ Growing(k)
           /\ b = <<>> /\ s.is = "first" => k # <<>>
           /\ Len(b) = 1 /\ s.is = "second" => k # <<>>
           /\ Len(b) = 2 /\ Overhead + s.n <= MaxTotal => k # <<>>
           /\ Len(b) >= 3 /\ Len(b) + 1 # Overhead + b[3].n => k # <<>>
           /\ Len(b) >= 3 /\ Len(b) + 1 = Overhead + b[3].n =>
                 k = <<>> /\ t = Append(b, s) /\ Complete(t)
<1> DEFINE c == Append(b, s)
<1>1. /\ c \in Seq(Symbols) /\ Len(c) = Len(b) + 1 /\ Len(b) \in Nat /\ c # <<>>
      /\ (\A i \in 1 .. Len(b) : c[i] = b[i]) /\ c[Len(b) + 1] = s
  BY AppendProperties
<1>2. b = <<>> <=> Len(b) = 0
  BY EmptySeq
<1>3. Len(<<>>) = 0
  OBVIOUS
<1>4. t \in {<<>>, c} /\ k \in {<<>>, t}
  BY DEF Taken, Kept
<1>5. ASSUME NEW i \in 1 .. Len(b)
      PROVE  b[i].n \in Nat
  <2>1. b[i] \in Symbols
    OBVIOUS
  <2> QED BY <2>1 DEF Symbols
<1>6. s.n \in Nat
  BY DEF Symbols
<1> HIDE DEF c
<1>7. ASSUME t = c, b # <<>>
      PROVE  /\ Len(b) = 1 => k = c
             /\ Len(b) = 2 => Sized(c) /\ Total(c) = Overhead + s.n /\ Total(c) > Len(c)
             /\ Len(b) >= 3 => Sized(c) /\ Total(c) = Overhead + b[3].n /\ ~TooLong(c)
  <2>1. Len(b) = 1 => ~Sized(c)
    BY <1>1 DEF Sized
  <2>2. CASE Len(b) = 1
    BY <1>7, <2>1, <2>2 DEF Kept, TooLong, Complete
  <2>3. CASE Len(b) = 2
    BY <1>1, <1>6, <2>3 DEF Sized, Total, Overhead
  <2>4. CASE Len(b) >= 3
    <3>1. 3 \in 1 .. Len(b) /\ c[3] = b[3] /\ Len(c) >= 3
      BY <1>1, <2>4
    <3>2. Overhead + b[3].n <= MaxTotal /\ b[3].n \in Nat /\ MaxTotal \in Nat
      BY <1>5, <1>7, <2>4, <3>1, GatewayHeadAssumption DEF Growing
    <3>3. Sized(c) /\ Total(c) = Overhead + b[3].n
      BY <3>1 DEF Sized, Total
    <3>4. ~(Overhead + b[3].n > MaxTotal)
      BY <3>2 DEF Overhead
    <3>5. ~TooLong(c)
      BY <3>3, <3>4 DEF TooLong
    <3>6. Len(b) # 1 /\ Len(b) # 2
      BY <1>1, <2>4
    <3> QED BY <3>3, <3>5, <3>6
  <2> QED BY <2>2, <2>3, <2>4
<1>8. CASE b = <<>>
  <2>1. Len(c) = 1 /\ c[1] = s
    BY <1>1, <1>2, <1>8
  <2>2. ~Sized(c) /\ ~Sized(<<>>)
    BY <1>3, <2>1 DEF Sized
  <2>3. k = t /\ (t # <<>> => s.is = "first")
    BY <1>4, <1>8, <2>2 DEF Kept, TooLong, Complete, Taken, Skipped
  <2>4. s.is = "first" => t = c
    BY <1>2, <1>8 DEF Taken, Skipped, c
  <2> QED BY <1>1, <1>2, <1>4, <1>8, <2>1, <2>3, <2>4 DEF Growing, c
<1>9. CASE b # <<>> /\ t = <<>>
  <2>1. Len(b) = 1 /\ s.is # "second"
    BY <1>1, <1>9 DEF Taken, Skipped, c
  <2>2. k = <<>>
    BY <1>4, <1>9
  <2>3. Growing(<<>>)
    BY DEF Growing
  <2>4. Len(b) # 2 /\ ~(Len(b) >= 3)
    BY <2>1
  <2> QED BY <1>9, <2>1, <2>2, <2>3, <2>4
<1>10. CASE b # <<>> /\ t = c
  <2>1. Len(b) = 1 \/ Len(b) = 2 \/ Len(b) >= 3
    <3>1. Len(b) \in Nat /\ Len(b) # 0
      BY <1>1, <1>2, <1>10
    <3>2. \A n \in Nat : n # 0 => n = 1 \/ n = 2 \/ n >= 3
      OBVIOUS
    <3> QED BY <3>1, <3>2, Zenon
  <2>2. c[1] = b[1]
    BY <1>1, <2>1
  <2>3. CASE Len(b) = 1
    BY <1>1, <1>7, <1>10, <2>2, <2>3 DEF Growing, c
  <2>4. CASE Len(b) = 2
    <3>1. Sized(c) /\ Total(c) = Overhead + s.n /\ Total(c) > Len(c) /\ c[3] = s /\ Len(c) = 3
      BY <1>1, <1>7, <1>10, <2>4
    <3>2. ~Complete(c)
      BY <1>1, <1>6, <3>1 DEF Complete, Overhead
    <3>3. k = IF TooLong(c) THEN <<>> ELSE c
      BY <1>10, <3>2 DEF Kept
    <3>4. TooLong(c) <=> ~(Overhead + s.n <= MaxTotal)
      BY <1>6, <3>1, GatewayHeadAssumption DEF TooLong, Overhead
    <3>5. k = c => Growing(k)
      BY <1>10, <2>2, <3>1, <3>3, <3>4, <1>1 DEF Growing
    <3>6. Growing(<<>>)
      BY DEF Growing
    <3> QED BY <1>1, <2>4, <3>3, <3>4, <3>5, <3>6 DEF c
  <2>5. CASE Len(b) >= 3
    <3>1. Sized(c) /\ Total(c) = Overhead + b[3].n /\ ~TooLong(c) /\ c[3] = b[3]
      <4>1. 3 \in 1 .. Len(b)
        BY <1>1, <2>5
      <4> QED BY <1>1, <1>7, <1>10, <2>5, <4>1
    <3>2. Complete(c) <=> Len(b) + 1 = Overhead + b[3].n
      BY <1>1, <3>1 DEF Complete
    <3>3. k = IF Complete(c) THEN <<>> ELSE c
      BY <1>10, <3>1 DEF Kept
    <3>4. ~Complete(c) => Growing(c)
      <4>1. Overhead + b[3].n <= MaxTotal /\ Len(b) < Overhead + b[3].n /\ b[1].is = "first"
        BY <1>10, <2>5 DEF Growing
      <4>2. Overhead + b[3].n \in Nat
        BY <1>1, <1>5, <2>5 DEF Overhead
      <4> QED BY <1>1, <2>2, <3>1, <3>2, <4>1, <4>2 DEF Growing
    <3>5. Growing(<<>>)
      BY DEF Growing
    <3>6. b # <<>> /\ Len(b) # 1 /\ Len(b) # 2
      BY <1>1, <1>10, <2>5
    <3> QED BY <1>1, <1>10, <3>2, <3>3, <3>4, <3>5, <3>6 DEF c
  <2> QED BY <2>1, <2>3, <2>4, <2>5
<1> QED BY <1>4, <1>8, <1>9, <1>10

LEMMA ItemsOfRest ==
    ASSUME NEW S, NEW s \in Seq(S), s # <<>>
    PROVE  /\ s[1] \in Items(s) /\ Items(s) = {s[1]} \cup Items(Tail(s))
           /\ \A x \in Items(Tail(s)) : \E i \in 2 .. Len(s) : x = s[i]
<1>1. /\ Len(s) \in Nat \ {0} /\ Len(Tail(s)) = Len(s) - 1
      /\ \A i \in 1 .. Len(s) - 1 : Tail(s)[i] = s[i + 1]
  BY Rest
<1> DEFINE t == Tail(s)
           n == Len(s)
<1>2. n \in Nat \ {0} /\ Len(t) = n - 1 /\ \A i \in 1 .. n - 1 : t[i] = s[i + 1]
  BY <1>1
<1> HIDE DEF t, n
<1>3. ASSUME NEW i \in 1 .. n, i # 1
      PROVE  s[i] \in Items(t)
  <2>1. i - 1 \in 1 .. n - 1 /\ (i - 1) + 1 = i
    BY <1>2, <1>3
  <2>2. t[i - 1] = s[i] /\ i - 1 \in 1 .. Len(t)
    BY <1>2, <2>1
  <2> QED BY <2>2 DEF Items
<1>4. ASSUME NEW i \in 1 .. Len(t)
      PROVE  t[i] = s[i + 1] /\ i + 1 \in 1 .. n /\ i + 1 \in 2 .. n
  BY <1>2
<1>5. 1 \in 1 .. n
  BY <1>2
<1> QED BY <1>3, <1>4, <1>5 DEF Items, t, n

(* A step of the parser takes the first symbol that comes; where it makes  *)
(* a frame ready, that is found or dropped.                                *)
Comes(s) ==
    /\ s \in Symbols /\ s \in Coming /\ buffer' = Kept(Taken(buffer, s))
    /\ UNCHANGED <<whole, cuts, strays, written>> /\ gone \subseteq gone'
    /\ Coming' \subseteq Coming
    /\ \A x \in Coming : x = s \/ x \in Coming' \/ x.at \in gone'
    /\ \A x \in Coming : x = s \/ s.at < x.at
    /\ \A x \in Coming' : s.at < x.at
    /\ Got \subseteq Got'
    /\ FrameReady(Taken(buffer, s)) => /\ Taken(buffer, s) # <<>>
                                       /\ Taken(buffer, s)[1].at \in Got' \cup gone'

LEMMA ComingParse ==
    ASSUME TypeOK, Pipe, Order, Parse, NEW s, s = hand[1]
    PROVE  Comes(s)
<1> DEFINE b == Taken(buffer, s)
           full == FrameReady(b) /\ RxIsFull
<1>1. /\ hand # <<>> /\ hand \in Seq(Symbols) /\ s \in Symbols
      /\ buffer \in Seq(Symbols) /\ chunks \in Seq(Seq(Symbols)) /\ rx \in Seq(Nat) /\ s.at \in Nat
  <2>1. s \in Symbols /\ hand # <<>>
    BY Byte
  <2> QED BY <2>1 DEF TypeOK, Symbols
<1>2. Head(hand) = s
  BY <1>1, Rest
<1>3. /\ buffer' = Kept(b)
      /\ hand' = (IF full THEN <<>> ELSE Tail(hand))
      /\ rx' = (IF FrameReady(b) /\ ~full THEN Append(rx, b[1].at) ELSE rx)
      /\ gone' = (IF full THEN gone \cup Positions(b) \cup Positions(hand) ELSE gone)
      /\ UNCHANGED <<wire, written, whole, cuts, strays, chunks, handled>>
  BY <1>2 DEF Parse, host, backend
<1> HIDE DEF full
<1>4. /\ s \in Items(hand) /\ Items(hand) = {s} \cup Items(Tail(hand))
      /\ \A x \in Items(Tail(hand)) : \E i \in 2 .. Len(hand) : x = hand[i]
  BY <1>1, ItemsOfRest
<1>5. ASSUME NEW x \in Items(hand) PROVE x.at \in Positions(hand)
  <2>1. DOMAIN hand = 1 .. Len(hand)
    BY <1>1
  <2> QED BY <2>1 DEF Items, Positions
<1>6. Items(<<>>) = {}
  BY DEF Items
<1>7. ASSUME NEW x \in Items(Tail(hand)) PROVE s.at < x.at
  <2>1. PICK i \in 2 .. Len(hand) : x = hand[i]
    BY <1>4
  <2>2. \A k \in 1 .. Len(hand) : hand[k].at = s.at + k - 1
    BY DEF Pipe, Pieces, Run
  <2>3. i \in 1 .. Len(hand) /\ i \in Nat /\ i >= 2
    BY <1>1, <2>1
  <2> QED BY <1>1, <2>1, <2>2, <2>3
<1>8. After(chunks, written - Len(wire), 0, s.at)
  <2>1. 1 \in 1 .. Len(hand)
    BY <1>1, Rest
  <2> QED BY <2>1 DEF Order, Sorted, Line
<1>9. ASSUME NEW i \in 1 .. Len(chunks), NEW x \in Items(chunks[i]) PROVE s.at < x.at
  <2>1. i \in 0 + 1 .. Len(chunks)
    BY <1>1
  <2> QED BY <1>8, <1>9, <2>1 DEF After, Items
<1>10. ASSUME NEW x \in Items(wire) PROVE s.at < x.at
  <2>1. PICK i \in 1 .. Len(wire) : x = wire[i]
    BY DEF Items
  <2>2. x.at = written - Len(wire) + i - 1 /\ Len(wire) \in Nat /\ written \in Nat
    BY <2>1 DEF Pipe, Pieces, TypeOK
  <2>3. s.at < written - Len(wire)
    BY <1>8 DEF After
  <2> QED BY <1>1, <2>1, <2>2, <2>3
<1> DEFINE others == Items(wire) \cup UNION {Items(chunks[i]) : i \in 1 .. Len(chunks)}
<1>11. Coming = others \cup Items(hand) /\ Coming' = others \cup Items(hand')
  BY <1>3 DEF Coming
<1>12. \A x \in others : s.at < x.at
  BY <1>9, <1>10
<1>13. Items(hand') \subseteq Items(Tail(hand))
  BY <1>3, <1>6
<1> HIDE DEF others
<1>14. s \in Coming /\ Coming' \subseteq Coming
  BY <1>4, <1>11, <1>13
<1>15. \A x \in Coming : x = s \/ x \in Coming' \/ x.at \in gone'
  <2>1. CASE full
    BY <1>3, <1>5, <1>11, <2>1
  <2>2. CASE ~full
    BY <1>3, <1>4, <1>11, <2>2
  <2> QED BY <2>1, <2>2
<1>16. (\A x \in Coming : x = s \/ s.at < x.at) /\ \A x \in Coming' : s.at < x.at
  BY <1>4, <1>7, <1>11, <1>12, <1>13
<1>17. Got \subseteq Got'
  <2>1. CASE rx' = rx
    BY <1>3, <2>1 DEF Got
  <2>2. CASE rx' = Append(rx, b[1].at)
    <3>1. \A i \in DOMAIN rx : i \in DOMAIN rx' /\ rx'[i] = rx[i]
      BY <1>1, <2>2
    <3> QED BY <1>3, <3>1 DEF Got
  <2> QED BY <1>3, <2>1, <2>2
<1>18. ASSUME FrameReady(b) PROVE b # <<>> /\ b[1].at \in Got' \cup gone'
  <2>1. b # <<>> /\ b \in Seq(Symbols) /\ 1 \in DOMAIN b /\ b[1].at \in Nat
    <3>1. b \in Seq(Symbols)
      BY <1>1, ParserFacts
    <3>2. Len(b) >= 3 /\ Len(b) \in Nat
      BY <1>18, <3>1 DEF FrameReady, Complete, Sized
    <3>3. b # <<>>
      <4>1. Len(<<>>) = 0
        OBVIOUS
      <4> QED BY <3>2, <4>1
    <3>4. 1 \in 1 .. Len(b) /\ DOMAIN b = 1 .. Len(b)
      BY <3>1, <3>2
    <3> QED BY <3>1, <3>3, <3>4, PlaceOf
  <2> HIDE DEF b
  <2>2. CASE full
    BY <1>3, <2>1, <2>2 DEF Positions
  <2>3. CASE ~full
    <3>1. rx' = Append(rx, b[1].at)
      BY <1>3, <1>18, <2>3
    <3>2. Len(rx) + 1 \in DOMAIN rx' /\ rx'[Len(rx) + 1] = b[1].at
      BY <1>1, <2>1, <3>1
    <3> QED BY <2>1, <3>2 DEF Got
  <2> QED BY <2>2, <2>3
<1>19. gone \subseteq gone'
  BY <1>3
<1> QED BY <1>1, <1>3, <1>14, <1>15, <1>16, <1>17, <1>18, <1>19 DEF Comes

(* A symbol stands where the last boundary before it says.                 *)
LEMMA OneBeginning ==
    ASSUME NEW x \in Symbols, Telling(x), NEW q \in Nat, NEW N \in Nat, Boundary(q),
           \A p \in q + 1 .. N : ~Boundary(p), q <= x.at, x.at <= N
    PROVE  x.of[1] = q
<1>1. x.of[1] \in Nat /\ x.at \in Nat
  BY DEF Symbols
<1>2. /\ Boundary(x.of[1]) /\ x.of[1] <= x.at
      /\ \A p \in x.of[1] + 1 .. x.at : ~Boundary(p)
  BY DEF Telling
<1>3. ~(x.of[1] < q)
  <2> SUFFICES ASSUME x.of[1] < q PROVE FALSE
    OBVIOUS
  <2>1. q \in x.of[1] + 1 .. x.at
    BY <1>1
  <2> QED BY <1>2, <2>1
<1>4. ~(q < x.of[1])
  <2> SUFFICES ASSUME q < x.of[1] PROVE FALSE
    OBVIOUS
  <2>1. x.of[1] \in q + 1 .. N
    BY <1>1, <1>2
  <2> QED BY <1>2, <2>1
<1> QED BY <1>1, <1>3, <1>4

(* A buffer that is the beginning of a frame takes the next symbol of it.  *)
LEMMA Progress ==
    ASSUME NEW b \in Seq(Symbols), NEW s \in Symbols, Growing(b), Run(b), b # <<>>,
           b[1].at + Len(b) = s.at, Telling(s), s.of[1] = b[1].at,
           Len(b) >= 3 => Telling(b[3]) /\ b[3].of[1] = b[1].at
    PROVE  LET k == Kept(Taken(b, s))
           IN  /\ k \in {<<>>, Append(b, s)}
               /\ Len(b) < 3 => k = Append(b, s)
               /\ Len(b) >= 3 /\ s.at # b[3].of[2] => k = Append(b, s)
               /\ Len(b) >= 3 /\ s.at = b[3].of[2] =>
                     k = <<>> /\ Taken(b, s) = Append(b, s) /\ Complete(Append(b, s))
<1> DEFINE k == Kept(Taken(b, s))
           c == Append(b, s)
           q == b[1].at
           n == Len(b)
<1>1. n \in Nat /\ n # 0 /\ q \in Nat /\ s.at = q + n /\ s.of[1] = q
  <2>1. n \in Nat /\ n # 0
    BY EmptySeq
  <2>2. 1 \in 1 .. n
    BY <2>1
  <2> QED BY <2>1, <2>2, PlaceOf
<1>2. /\ k \in {<<>>, c}
      /\ n = 1 /\ s.is = "second" => k # <<>>
      /\ n = 2 /\ Overhead + s.n <= MaxTotal => k # <<>>
      /\ n >= 3 /\ n + 1 # Overhead + b[3].n => k # <<>>
      /\ n >= 3 /\ n + 1 = Overhead + b[3].n => k = <<>> /\ Taken(b, s) = c /\ Complete(c)
  BY Grows
<1> HIDE DEF k, c
<1>3. CASE n = 1
  <2>1. s.is = "second"
    BY <1>1, <1>3 DEF Telling
  <2> QED BY <1>2, <1>3, <2>1 DEF k, c
<1>4. CASE n = 2
  <2>1. s.of[1] + s.n + Overhead = s.of[2] + 1 /\ s.of[2] < s.of[1] + MaxTotal
    BY <1>1, <1>4 DEF Telling
  <2>2. s.of[1] \in Nat /\ s.of[2] \in Nat /\ s.n \in Nat /\ MaxTotal \in Nat
    BY GatewayHeadAssumption DEF Symbols
  <2>3. \A a, m, e, t \in Nat : a + m + 4 = e + 1 /\ e < a + t => 4 + m <= t
    OBVIOUS
  <2>4. Overhead + s.n <= MaxTotal
    BY <2>1, <2>2, <2>3 DEF Overhead
  <2> QED BY <1>2, <1>4, <2>4 DEF k, c
<1>5. CASE n >= 3
  <2>1. 3 \in 1 .. n /\ b[3] \in Symbols
    BY <1>1, <1>5
  <2>2. b[3].at = q + 2
    BY <1>1, <2>1 DEF Run
  <2>3. b[3].of[1] + b[3].n + Overhead = b[3].of[2] + 1 /\ b[3].of[1] = q
    BY <1>5, <2>2 DEF Telling
  <2>4. b[3].of[2] \in Nat /\ b[3].n \in Nat
    BY <2>1 DEF Symbols
  <2>5. \A a, m, e, l \in Nat : a + m + 4 = e + 1 => (l + 1 = 4 + m <=> a + l = e)
    OBVIOUS
  <2>6. (n + 1 = Overhead + b[3].n) <=> (s.at = b[3].of[2])
    <3> DEFINE m == b[3].n
               e == b[3].of[2]
    <3>1. q + m + 4 = e + 1 /\ m \in Nat /\ e \in Nat /\ q \in Nat /\ n \in Nat
      BY <1>1, <2>3, <2>4 DEF Overhead
    <3> HIDE DEF m, e, q, n
    <3>2. n + 1 = 4 + m <=> q + n = e
      BY <2>5, <3>1
    <3> QED BY <1>1, <3>2 DEF m, e, Overhead
  <2> QED BY <1>1, <1>2, <1>5, <2>6 DEF k, c
<1>6. n = 1 \/ n = 2 \/ n >= 3
  <2>1. \A m \in Nat : m # 0 => m = 1 \/ m = 2 \/ m >= 3
    OBVIOUS
  <2> QED BY <1>1, <2>1, Zenon
<1> QED BY <1>3, <1>4, <1>5, <1>6

(* Where the parser is, and the symbol that comes to it.                   *)
LEMMA ComesTo ==
    ASSUME TypeOK, TypeOK', Script, NEW N \in Nat, Tracked(N), NEW s, Comes(s)
    PROVE  /\ s \in Symbols /\ s.at \in Nat /\ s.of[1] \in Nat /\ s.of[2] \in Nat
           /\ Telling(s) /\ N <= s.at
           /\ \A p \in N .. s.at - 1 : p \in gone
           /\ \A x \in Items(buffer) : x \in Symbols /\ Telling(x)
           /\ Growing(buffer) /\ buffer \in Seq(Symbols) /\ Len(buffer) \in Nat
           /\ Items(buffer) = {buffer[i] : i \in 1 .. Len(buffer)}
           /\ \A p : Boundary(p)' <=> Boundary(p)
<1>1. s \in Symbols /\ s \in Coming
  BY DEF Comes
<1>2. s.at \in Nat /\ s.of[1] \in Nat /\ s.of[2] \in Nat
  BY <1>1 DEF Symbols
<1>3. Telling(s)
  BY <1>1 DEF Script
<1>4. N <= s.at /\ s.at < written /\ written \in Nat
  BY <1>1, <1>3 DEF Tracked, Cursor, Telling, TypeOK
<1>5. ASSUME NEW p \in N .. s.at - 1 PROVE p \in gone
  <2>1. p \in N .. written - 1 /\ p < s.at
    BY <1>2, <1>4
  <2>2. \A x \in Coming : x = s \/ s.at < x.at
    BY DEF Comes
  <2>3. \A x \in Coming : x.at # p
    <3>1. ~(s.at < p)
      BY <1>2, <2>1
    <3> QED BY <1>2, <2>1, <2>2, <3>1
  <2> QED BY <2>1, <2>3 DEF Tracked, Cursor
<1>6. buffer \in Seq(Symbols) /\ Len(buffer) \in Nat
  BY DEF TypeOK
<1>7. \A x \in Items(buffer) : x \in Symbols /\ Telling(x)
  BY <1>6 DEF Script, Items
<1>8. Growing(buffer)
  BY DEF Tracked
<1>9. \A p : Boundary(p)' <=> Boundary(p)
  BY DEF Boundary, Comes
<1> QED BY <1>1, <1>2, <1>3, <1>4, <1>5, <1>6, <1>7, <1>8, <1>9 DEF Items

LEMMA CursorNext ==
    ASSUME TypeOK, TypeOK', Script, NEW N \in Nat, Tracked(N), NEW s, Comes(s),
           NEW M, M = s.at + 1
    PROVE  Cursor(M)' /\ Growing(buffer)' /\ Reaching(buffer, gone, M)'
<1>1. /\ s \in Symbols /\ s.at \in Nat /\ Telling(s) /\ N <= s.at
      /\ \A p \in N .. s.at - 1 : p \in gone
      /\ Growing(buffer) /\ buffer \in Seq(Symbols) /\ Len(buffer) \in Nat
  BY ComesTo
<1>2. s.at < written /\ written \in Nat /\ written' = written
  BY <1>1 DEF Telling, TypeOK, Comes
<1>3. Cursor(M)'
  <2>1. M <= written'
    BY <1>1, <1>2
  <2>2. ASSUME NEW x \in Coming' PROVE M <= x.at
    <3>1. s.at < x.at
      BY DEF Comes
    <3>2. x \in Coming /\ N <= x.at
      BY DEF Comes, Tracked, Cursor
    <3>3. x \in Symbols
      BY <3>2, ComingAre
    <3>4. x.at \in Nat
      BY <3>3 DEF Symbols
    <3> QED BY <1>1, <3>1, <3>4
  <2>3. ASSUME NEW p \in M .. written - 1
        PROVE  (\E x \in Coming' : x.at = p) \/ p \in gone'
    <3>1. p \in N .. written - 1 /\ p # s.at
      BY <1>1, <1>2
    <3>2. (\E x \in Coming : x.at = p) \/ p \in gone
      BY <3>1 DEF Tracked, Cursor
    <3> QED BY <3>1, <3>2 DEF Comes
  <2> QED BY <1>2, <2>1, <2>2, <2>3 DEF Cursor
<1> DEFINE c == Append(buffer, s)
<1>4. buffer' \in {<<>>, c} /\ Growing(buffer')
  BY <1>1, Grows DEF Comes
<1>5. Growing(buffer)'
  BY <1>4 DEF Growing
<1>6. /\ c \in Seq(Symbols) /\ Len(c) = Len(buffer) + 1 /\ c # <<>>
      /\ (\A i \in 1 .. Len(buffer) : c[i] = buffer[i]) /\ c[Len(buffer) + 1] = s
  BY <1>1, AppendProperties
<1>7. buffer = <<>> <=> Len(buffer) = 0
  BY <1>1, EmptySeq
<1> HIDE DEF c
<1>8. gone \subseteq gone' /\ gone \subseteq Nat
  BY DEF Comes, TypeOK
<1>9. (Run(c) /\ c[1].at + Len(c) = M) \/ \E d \in gone : M <= d + Len(c) /\ d < M
  <2>1. CASE buffer = <<>>
    <3>1. Len(c) = 1 /\ c[1] = s
      BY <1>6, <1>7, <2>1
    <3>2. Run(c)
      BY <1>1, <3>1 DEF Run
    <3> QED BY <3>1, <3>2
  <2>2. CASE buffer # <<>> /\ N < s.at
    <3>1. s.at - 1 \in gone /\ Len(buffer) >= 1
      BY <1>1, <1>7, <2>2
    <3>2. M <= (s.at - 1) + Len(c) /\ s.at - 1 < M
      BY <1>1, <1>6, <3>1
    <3> QED BY <3>1, <3>2
  <2>3. CASE buffer # <<>> /\ N = s.at
    <3>1. CASE Run(buffer) /\ buffer[1].at + Len(buffer) = N
      <4>1. Ends(buffer, s.at)
        BY <2>3, <3>1 DEF Ends
      <4>2. Run(c) /\ Ends(c, s.at + 1)
        BY <1>1, <3>1, <4>1, RunsOn DEF c
      <4> QED BY <1>6, <4>2 DEF Ends
    <3>2. ASSUME NEW d \in gone, N <= d + Len(buffer), d < N
          PROVE  M <= d + Len(c) /\ d < M
      BY <1>1, <1>6, <1>8, <2>3, <3>2
    <3> QED BY <2>3, <3>1, <3>2 DEF Tracked, Reaching
  <2> QED BY <1>1, <2>1, <2>2, <2>3
<1>10. Reaching(buffer, gone, M)'
  <2>1. CASE buffer' = <<>>
    BY <2>1 DEF Reaching
  <2>2. CASE buffer' = c
    <3>1. Run(c) <=> Run(buffer)'
      BY <2>2 DEF Run
    <3> QED BY <1>8, <1>9, <2>2, <3>1 DEF Reaching
  <2> QED BY <1>4, <2>1, <2>2
<1> QED BY <1>3, <1>5, <1>10

(* The buffer holds the frame f from its beginning up to the symbol s.     *)
Holds(f, s) ==
    buffer # <<>> /\ buffer[1].at = f[1] /\ Run(buffer) /\ f[1] + Len(buffer) = s.at

(* A whole frame that the buffer holds is followed to its end, and there   *)
(* it is found, or dropped because there are too many.                     *)
LEMMA Following ==
    ASSUME TypeOK, TypeOK', Script, NEW N \in Nat, Tracked(N), NEW s, Comes(s),
           NEW f \in whole, Holds(f, s), s.at <= f[2]
    PROVE  /\ s.at < f[2] => buffer' = Append(buffer, s)
           /\ s.at = f[2] => f[1] \in Got' \cup gone'
<1> DEFINE n == Len(buffer)
           c == Append(buffer, s)
<1>1. /\ s \in Symbols /\ s.at \in Nat /\ Telling(s)
      /\ Growing(buffer) /\ buffer \in Seq(Symbols) /\ n \in Nat
      /\ \A i \in 1 .. n : buffer[i] \in Symbols /\ Telling(buffer[i])
  <2>1. \A i \in 1 .. n : buffer[i] \in Items(buffer)
    BY DEF Items
  <2> QED BY <2>1, ComesTo
<1>2. f[1] \in Nat /\ f[2] \in Nat /\ f[1] + 3 <= f[2]
  BY DEF TypeOK, Script, Layout
<1>3. /\ buffer # <<>> /\ buffer[1].at = f[1] /\ Run(buffer) /\ f[1] + n = s.at /\ n # 0
  BY <1>1, EmptySeq DEF Holds
<1>4. ASSUME NEW i \in 1 .. n
      PROVE  buffer[i].of = f /\ buffer[i].at = f[1] + i - 1
  <2>1. buffer[i].at = f[1] + i - 1
    BY <1>3 DEF Run
  <2>2. f[1] <= buffer[i].at /\ buffer[i].at <= f[2]
    BY <1>1, <1>2, <1>3, <2>1
  <2> QED BY <1>1, <2>1, <2>2 DEF Telling
<1>5. s.of = f
  BY <1>1, <1>2, <1>3 DEF Telling
<1> HIDE DEF n
<1>6. n >= 3 => Telling(buffer[3]) /\ buffer[3].of = f
  <2>1. n >= 3 => 3 \in 1 .. n
    BY <1>1 DEF n
  <2> QED BY <1>1, <1>4, <2>1
<1>7. /\ n < 3 => buffer' = c
      /\ n >= 3 /\ s.at # f[2] => buffer' = c
      /\ n >= 3 /\ s.at = f[2] => Taken(buffer, s) = c /\ Complete(c)
  <2>1. buffer' = Kept(Taken(buffer, s))
    BY DEF Comes
  <2> QED BY <1>1, <1>3, <1>5, <1>6, <2>1, Progress DEF n
<1>8. s.at < f[2] => buffer' = c
  BY <1>1, <1>2, <1>3, <1>7 DEF n
<1>9. ASSUME s.at = f[2] PROVE f[1] \in Got' \cup gone'
  <2>1. n >= 3
    BY <1>1, <1>2, <1>3, <1>9 DEF n
  <2>2. /\ c \in Seq(Symbols) /\ Len(c) = n + 1
        /\ (\A i \in 1 .. n : c[i] = buffer[i]) /\ c[n + 1] = s
    BY <1>1, AppendProperties DEF n
  <2> HIDE DEF c
  <2>3. \A i \in 1 .. n + 1 : c[i].of = f /\ c[i].at = f[1] + i - 1
    <3> TAKE i \in 1 .. n + 1
    <3>1. CASE i \in 1 .. n
      BY <1>4, <2>2, <3>1 DEF n
    <3>2. CASE i = n + 1
      BY <1>1, <1>2, <1>3, <1>5, <2>2, <3>2
    <3> QED BY <1>1, <3>1, <3>2 DEF n
  <2>4. 1 \in 1 .. n + 1
    BY <2>1, <1>1 DEF n
  <2>5. c[1].of = f /\ c[1].at = f[1]
    BY <1>2, <2>3, <2>4
  <2>6. Checks(c)
    <3>1. DOMAIN c = 1 .. n + 1
      BY <2>2
    <3> QED BY <2>3, <2>5, <3>1 DEF Checks
  <2>7. FrameReady(Taken(buffer, s)) /\ Taken(buffer, s) = c
    BY <1>7, <1>9, <2>1, <2>6 DEF FrameReady
  <2> QED BY <2>5, <2>7 DEF Comes
<1> QED BY <1>8, <1>9 DEF c

(* In step, a symbol that does not begin a frame finds the beginning of    *)
(* its own in the buffer.                                                  *)
LEMMA Stepping ==
    ASSUME TypeOK, TypeOK', Script, NEW N \in Nat, Tracked(N), NEW s, Comes(s),
           \A d \in gone \cup cuts : s.at < d
    PROVE  /\ N = s.at
           /\ \/ buffer = <<>> /\ s.of[1] = s.at
              \/ /\ Holds(s.of, s) /\ s.of[1] < s.at /\ Boundary(s.of[1])
                 /\ \A p \in s.of[1] + 1 .. s.at : ~Boundary(p)
                 /\ \A i \in 1 .. Len(buffer) : buffer[i].of[1] = s.of[1] /\ Telling(buffer[i])
<1>1. /\ s \in Symbols /\ s.at \in Nat /\ s.of[1] \in Nat /\ Telling(s) /\ N <= s.at
      /\ \A p \in N .. s.at - 1 : p \in gone
      /\ buffer \in Seq(Symbols) /\ Len(buffer) \in Nat
      /\ \A x \in Items(buffer) : x \in Symbols /\ Telling(x)
  BY ComesTo
<1>2. gone \cup cuts \subseteq Nat
  BY DEF TypeOK
<1>3. N = s.at
  <2> SUFFICES ASSUME N < s.at PROVE FALSE
    BY <1>1
  <2>1. N \in N .. s.at - 1
    BY <1>1
  <2> QED BY <1>1, <2>1
<1>4. \/ buffer = <<>> /\ Boundary(N)
      \/ /\ buffer # <<>> /\ Boundary(buffer[1].at)
         /\ \A p \in buffer[1].at + 1 .. N : ~Boundary(p)
  <2>1. \A d \in gone \cup cuts : N <= d
    BY <1>1, <1>2, <1>3
  <2> QED BY <2>1 DEF Tracked, InStep
<1>5. CASE buffer = <<>> /\ Boundary(N)
  <2>1. s.of[1] <= s.at /\ \A p \in s.of[1] + 1 .. s.at : ~Boundary(p)
    BY <1>1 DEF Telling
  <2>2. s.of[1] = s.at
    <3> SUFFICES ASSUME s.of[1] # s.at PROVE FALSE
      OBVIOUS
    <3>1. s.at \in s.of[1] + 1 .. s.at
      BY <1>1, <2>1
    <3> QED BY <1>3, <1>5, <2>1, <3>1
  <2> QED BY <1>3, <1>5, <2>2
<1>6. CASE /\ buffer # <<>> /\ Boundary(buffer[1].at)
           /\ \A p \in buffer[1].at + 1 .. N : ~Boundary(p)
  <2> DEFINE q == buffer[1].at
  <2>1. Len(buffer) # 0 /\ 1 \in 1 .. Len(buffer)
    BY <1>1, <1>6, EmptySeq
  <2>2. q \in Nat
    BY <1>1, <2>1, PlaceOf
  <2>3. Run(buffer) /\ q + Len(buffer) = N
    <3>1. \A d \in gone : ~(d < N)
      BY <1>1, <1>2, <1>3
    <3> QED BY <1>6, <3>1 DEF Tracked, Reaching
  <2>4. Boundary(q) /\ \A p \in q + 1 .. N : ~Boundary(p)
    BY <1>6
  <2>5. q < s.at
    BY <1>1, <1>3, <2>1, <2>2, <2>3
  <2> HIDE DEF q
  <2>6. s.of[1] = q
    BY <1>1, <1>3, <2>2, <2>4, <2>5, OneBeginning
  <2>7. ASSUME NEW i \in 1 .. Len(buffer)
        PROVE  buffer[i].of[1] = q /\ Telling(buffer[i])
    <3>1. buffer[i] \in Symbols /\ Telling(buffer[i])
      BY <1>1 DEF Items
    <3>2. buffer[i].at = q + i - 1
      BY <2>3 DEF Run, q
    <3>3. q <= buffer[i].at /\ buffer[i].at <= N
      BY <1>1, <2>2, <2>3, <3>2
    <3> QED BY <2>2, <2>4, <3>1, <3>3, OneBeginning
  <2>8. Holds(s.of, s)
    BY <1>3, <1>6, <2>3, <2>6 DEF Holds, q
  <2> QED BY <1>3, <2>4, <2>5, <2>6, <2>7, <2>8
<1> QED BY <1>4, <1>5, <1>6

(* The symbol that ends a frame is of that frame.                          *)
LEMMA Bounds ==
    ASSUME TypeOK, Layout, NEW s \in Symbols, Telling(s), NEW M, M = s.at + 1,
           Boundary(M), \A d \in cuts : s.at < d
    PROVE  s.of \in whole /\ s.of[2] = s.at /\ s.of[1] + 3 <= s.at
<1>1. s.at \in Nat /\ cuts \subseteq Nat /\ whole \subseteq Nat \X Nat
  BY DEF Symbols, TypeOK
<1>2. ~(M = 0) /\ \A c \in cuts : ~(c + 1 = M)
  BY <1>1
<1>3. PICK f \in whole : f[2] + 1 = M
  BY <1>2 DEF Boundary
<1>4. f[1] \in Nat /\ f[2] \in Nat /\ f[1] + 3 <= f[2]
  BY <1>1 DEF Layout
<1>5. f[2] = s.at /\ f[1] <= s.at /\ s.at <= f[2]
  BY <1>1, <1>3, <1>4
<1>6. s.of = f
  BY <1>5 DEF Telling
<1> QED BY <1>4, <1>5, <1>6

LEMMA InStepNext ==
    ASSUME TypeOK, TypeOK', Script, NEW N \in Nat, Tracked(N), NEW s, Comes(s),
           NEW M, M = s.at + 1
    PROVE  InStep(M)'
<1> SUFFICES ASSUME \A c \in gone' \cup cuts' : M <= c
             PROVE  \/ buffer' = <<>> /\ Boundary(M)
                    \/ /\ buffer' # <<>> /\ Boundary(buffer'[1].at)
                       /\ \A p \in buffer'[1].at + 1 .. M : ~Boundary(p)
  <2>1. \A p : Boundary(p)' <=> Boundary(p)
    BY ComesTo
  <2> QED BY <2>1 DEF InStep
<1> DEFINE n == Len(buffer)
           q == s.of[1]
           c == Append(buffer, s)
<1>1. /\ s \in Symbols /\ s.at \in Nat /\ q \in Nat /\ s.of[2] \in Nat /\ Telling(s)
      /\ Growing(buffer) /\ buffer \in Seq(Symbols) /\ n \in Nat
  BY ComesTo
<1>2. /\ gone \subseteq gone' /\ cuts' = cuts /\ gone \cup cuts \subseteq Nat
      /\ buffer' = Kept(Taken(buffer, s))
  BY DEF Comes, TypeOK
<1>3. \A d \in gone \cup cuts : s.at < d
  BY <1>1, <1>2
<1>4. /\ N = s.at
      /\ \/ buffer = <<>> /\ q = s.at
         \/ /\ Holds(s.of, s) /\ q < s.at /\ Boundary(q)
            /\ \A p \in q + 1 .. s.at : ~Boundary(p)
            /\ \A i \in 1 .. n : buffer[i].of[1] = q /\ Telling(buffer[i])
  BY <1>3, Stepping
<1>5. Boundary(M) => s.of \in whole /\ s.of[2] = s.at /\ q + 3 <= s.at
  <2>1. Layout /\ \A d \in cuts : s.at < d
    BY <1>3 DEF Script
  <2> QED BY <1>1, <2>1, Bounds
<1>6. /\ c \in Seq(Symbols) /\ Len(c) = n + 1 /\ c # <<>>
      /\ (\A i \in 1 .. n : c[i] = buffer[i]) /\ c[n + 1] = s
  BY <1>1, AppendProperties
<1> HIDE DEF c
<1>7. CASE buffer = <<>> /\ q = s.at
  <2>1. s.is = "first" /\ Boundary(s.at)
    <3>1. s.at = s.of[1] => s.is = "first"
      BY <1>1 DEF Telling
    <3>2. Boundary(s.of[1])
      BY <1>1 DEF Telling
    <3> QED BY <1>7, <3>1, <3>2
  <2>2. buffer' = c
    <3>1. /\ Kept(Taken(buffer, s)) \in {<<>>, Append(buffer, s)}
          /\ buffer = <<>> /\ s.is = "first" => Kept(Taken(buffer, s)) # <<>>
      BY <1>1, Grows
    <3> QED BY <1>2, <1>7, <2>1, <3>1 DEF c
  <2>3. c[1] = s
    <3>1. n = 0
      BY <1>7
    <3> QED BY <1>6, <3>1
  <2>4. ~Boundary(M)
    BY <1>1, <1>5, <1>7
  <2>5. ASSUME NEW p \in s.at + 1 .. M PROVE ~Boundary(p)
    <3>1. p = M
      BY <1>1
    <3> QED BY <2>4, <3>1
  <2> QED BY <1>6, <2>1, <2>2, <2>3, <2>5
<1>8. CASE /\ Holds(s.of, s) /\ q < s.at /\ Boundary(q)
           /\ \A p \in q + 1 .. s.at : ~Boundary(p)
           /\ \A i \in 1 .. n : buffer[i].of[1] = q /\ Telling(buffer[i])
  <2>1. buffer # <<>> /\ buffer[1].at = q /\ Run(buffer) /\ q + n = s.at /\ n # 0
    BY <1>1, <1>8, EmptySeq DEF Holds
  <2>2. n >= 3 => /\ buffer[3] \in Symbols /\ Telling(buffer[3]) /\ buffer[3].of[1] = q
                  /\ buffer[3].at = q + 2
    <3>1. n >= 3 => 3 \in 1 .. n
      BY <1>1
    <3> QED BY <1>1, <1>8, <2>1, <3>1 DEF Run
  <2>3. /\ n < 3 => buffer' = c
        /\ n >= 3 /\ s.at # buffer[3].of[2] => buffer' = c
        /\ n >= 3 /\ s.at = buffer[3].of[2] => buffer' = <<>>
    BY <1>1, <1>2, <2>1, <2>2, Progress DEF c
  <2>4. ASSUME n >= 3, Boundary(M) PROVE s.at = buffer[3].of[2]
    <3>1. s.of \in whole /\ s.of[2] = s.at /\ q + 3 <= s.at
      BY <1>5, <2>4
    <3>2. s.of[1] <= buffer[3].at /\ buffer[3].at <= s.of[2]
      BY <1>1, <2>2, <2>4, <3>1
    <3>3. buffer[3].of = s.of
      BY <2>2, <2>4, <3>1, <3>2 DEF Telling
    <3> QED BY <3>1, <3>3
  <2>5. ASSUME buffer' = c, ~Boundary(M)
        PROVE  /\ buffer' # <<>> /\ Boundary(buffer'[1].at)
               /\ \A p \in buffer'[1].at + 1 .. M : ~Boundary(p)
    <3>1. c[1].at = q
      <4>1. 1 \in 1 .. n
        BY <1>1, <2>1
      <4> QED BY <1>6, <2>1, <4>1
    <3>2. ASSUME NEW p \in q + 1 .. M PROVE ~Boundary(p)
      <4>1. p = M \/ p \in q + 1 .. s.at
        BY <1>1
      <4> QED BY <1>8, <2>5, <4>1
    <3> QED BY <1>6, <1>8, <2>5, <3>1, <3>2
  <2>6. CASE n < 3
    BY <1>1, <1>5, <2>1, <2>3, <2>5, <2>6
  <2>7. CASE n >= 3 /\ s.at # buffer[3].of[2]
    BY <2>3, <2>4, <2>5, <2>7
  <2>8. CASE n >= 3 /\ s.at = buffer[3].of[2]
    <3>1. \A d \in cuts : ~(d < buffer[3].of[2])
      BY <1>1, <1>2, <1>3, <2>8
    <3>2. buffer[3].of \in whole
      BY <2>2, <2>8, <3>1 DEF Telling
    <3>3. Boundary(M)
      BY <2>8, <3>2 DEF Boundary
    <3> QED BY <2>3, <2>8, <3>3
  <2>9. n < 3 \/ n >= 3
    BY <1>1
  <2> QED BY <2>6, <2>7, <2>8, <2>9
<1> QED BY <1>4, <1>7, <1>8

(* Where nothing near was cut, dropped or astray, the parser has its frame *)
(* from the beginning.                                                     *)
LEMMA WithoutReason ==
    ASSUME TypeOK, TypeOK', Script, NEW N \in Nat, Tracked(N), NEW s, Comes(s),
           NEW M, M = s.at + 1,
           NEW f \in whole, f[1] <= s.at, s.at <= f[2], ~Near(f, M)'
    PROVE  (f[1] = s.at /\ buffer = <<>>) \/ (f[1] < s.at /\ Holds(f, s))
<1> DEFINE n == Len(buffer)
           q == buffer[1].at
<1>1. /\ s \in Symbols /\ s.at \in Nat /\ Telling(s) /\ N <= s.at
      /\ \A p \in N .. s.at - 1 : p \in gone
      /\ Growing(buffer) /\ buffer \in Seq(Symbols) /\ n \in Nat
      /\ \A i \in 1 .. n : buffer[i] \in Symbols /\ Telling(buffer[i])
  <2>1. \A i \in 1 .. n : buffer[i] \in Items(buffer)
    BY DEF Items
  <2> QED BY <2>1, ComesTo
<1>2. /\ f[1] \in Nat /\ f[2] \in Nat /\ f[1] + 3 <= f[2] /\ f[2] < f[1] + MaxTotal
      /\ MaxTotal \in Nat /\ MaxTotal >= 4
  <2>1. f[1] \in Nat /\ f[2] \in Nat /\ f[1] + 3 <= f[2] /\ f[2] < f[1] + MaxTotal
    BY DEF TypeOK, Script, Layout
  <2>2. MaxTotal \in Nat
    BY GatewayHeadAssumption
  <2> QED BY <2>1, <2>2
<1>3. gone \cup cuts \cup strays \subseteq Nat
  BY DEF TypeOK
<1>4. ASSUME NEW d \in gone \cup cuts \cup strays, d < M
      PROVE  ~(f[1] < d + MaxTotal)
  <2>1. d \in gone' \cup cuts' \cup strays'
    BY DEF Comes
  <2> QED BY <1>4, <2>1 DEF Near
<1>5. N = s.at
  <2> SUFFICES ASSUME N < s.at PROVE FALSE
    BY <1>1
  <2>1. s.at - 1 \in gone
    BY <1>1
  <2>2. s.at - 1 < M /\ f[1] < (s.at - 1) + MaxTotal
    BY <1>1, <1>2
  <2> QED BY <1>4, <2>1, <2>2
<1>6. CASE f[1] < s.at
  <2>1. ~Near(f, N)
    <3>1. \A d \in gone \cup cuts \cup strays : d < N => d < M
      BY <1>1, <1>3, <1>5
    <3> QED BY <1>4, <3>1 DEF Near
  <2> QED BY <1>5, <1>6, <2>1 DEF Tracked, InFrame, Holds
<1>7. CASE f[1] = s.at
  <2> SUFFICES buffer = <<>>
    BY <1>7
  <2> SUFFICES ASSUME buffer # <<>> PROVE FALSE
    OBVIOUS
  <2>1. n # 0 /\ 1 \in 1 .. n /\ q \in Nat
    BY <1>1, EmptySeq, PlaceOf
  <2>2. n < MaxTotal
    <3>1. CASE n < 3
      BY <1>1, <1>2, <3>1
    <3>2. CASE n >= 3
      <4>1. 3 \in 1 .. n
        BY <1>1, <3>2
      <4>2. buffer[3].n \in Nat
        BY <1>1, <4>1 DEF Symbols
      <4>3. Overhead + buffer[3].n <= MaxTotal /\ n < Overhead + buffer[3].n
        BY <1>1, <3>2 DEF Growing
      <4> QED BY <1>1, <1>2, <4>2, <4>3 DEF Overhead
    <3> QED BY <1>1, <3>1, <3>2
  <2>3. Run(buffer) /\ q + n = f[1]
    <3>1. ASSUME NEW d \in gone, N <= d + n, d < N PROVE FALSE
      <4>1. d < M /\ f[1] < d + MaxTotal
        BY <1>1, <1>2, <1>3, <1>5, <1>7, <2>2, <3>1
      <4> QED BY <1>4, <4>1
    <3> QED BY <1>5, <1>7, <3>1 DEF Tracked, Reaching
  <2>4. q < M /\ f[1] < q + MaxTotal
    BY <1>1, <1>2, <1>7, <2>1, <2>2, <2>3
  <2>5. q \notin strays
    BY <1>4, <2>4
  <2> DEFINE b1 == buffer[1]
  <2>6. b1.of[1] = q /\ b1.is = "first" /\ Telling(b1) /\ b1.of[2] \in Nat
    <3>1. b1.is = "first" /\ Telling(b1) /\ b1.at = q /\ b1 \in Symbols
      BY <1>1, <2>1 DEF Growing
    <3> QED BY <2>5, <3>1 DEF Telling, Symbols
  <2>7. CASE b1.of \in whole
    <3> DEFINE h == b1.of
    <3>1. h[1] = q /\ h[2] \in Nat /\ h[1] + 3 <= h[2]
      BY <2>6, <2>7 DEF Script, Layout
    <3>2. h = f \/ f[2] < h[1] \/ h[2] < f[1]
      BY <2>7 DEF Script, Layout
    <3>3. h[2] < f[1]
      <4>1. h[1] < f[1]
        BY <1>1, <1>2, <2>1, <2>3, <3>1
      <4>2. h # f /\ ~(f[2] < h[1])
        BY <1>2, <2>1, <3>1, <4>1
      <4> QED BY <3>2, <4>2
    <3>4. n >= 4 /\ 3 \in 1 .. n
      <4>1. \A a, b, e, l \in Nat : a + l = b /\ a + 3 <= e /\ e < b => l >= 4 /\ 3 \in 1 .. l
        OBVIOUS
      <4> HIDE DEF h, n, q
      <4> QED BY <1>1, <1>2, <2>1, <2>3, <3>1, <3>3, <4>1
    <3>5. buffer[3].at = q + 2 /\ buffer[3] \in Symbols /\ Telling(buffer[3])
      BY <1>1, <2>1, <2>3, <3>4 DEF Run
    <3>6. h[1] <= buffer[3].at /\ buffer[3].at <= h[2]
      BY <2>1, <3>1, <3>5
    <3>7. buffer[3].of = h
      BY <2>7, <3>5, <3>6 DEF Telling
    <3>8. h[1] + buffer[3].n + Overhead = h[2] + 1 /\ buffer[3].n \in Nat
      BY <3>1, <3>5, <3>7 DEF Telling, Symbols
    <3>9. n < Overhead + buffer[3].n
      BY <1>1, <3>4 DEF Growing
    <3>10. \A a, b, l, m, e \in Nat : a + m + 4 = e + 1 /\ e < b /\ a + l = b => ~(l < 4 + m)
      OBVIOUS
    <3>11. f[1] \in Nat /\ buffer[3].n \in Nat /\ h[1] \in Nat /\ h[1] + n = f[1]
      BY <1>2, <2>1, <2>3, <3>1, <3>8
    <3> HIDE DEF h
    <3> QED BY <1>1, <3>1, <3>3, <3>8, <3>9, <3>10, <3>11 DEF Overhead
  <2>8. CASE b1.of \notin whole
    <3>1. PICK d \in cuts : /\ q <= d
                            /\ \A g \in whole : g[1] <= q \/ d < g[1]
      BY <2>6, <2>8 DEF Telling
    <3>2. d < f[1]
      BY <1>2, <2>1, <2>3, <3>1, <1>1
    <3>3. d < M /\ f[1] < d + MaxTotal
      BY <1>1, <1>2, <1>3, <1>7, <2>1, <2>4, <3>1, <3>2
    <3> QED BY <1>4, <3>3
  <2> QED BY <2>7, <2>8
<1> QED BY <1>1, <1>2, <1>6, <1>7

LEMMA InFrameNext ==
    ASSUME TypeOK, TypeOK', Script, NEW N \in Nat, Tracked(N), NEW s, Comes(s),
           NEW M, M = s.at + 1
    PROVE  InFrame(M)'
<1> SUFFICES ASSUME NEW f \in whole, f[1] < M, M <= f[2], ~Near(f, M)'
             PROVE  /\ buffer' # <<>> /\ buffer'[1].at = f[1] /\ Run(buffer)'
                    /\ f[1] + Len(buffer') = M
  BY DEF InFrame, Comes
<1> DEFINE c == Append(buffer, s)
<1>1. /\ s \in Symbols /\ s.at \in Nat /\ Telling(s)
      /\ Growing(buffer) /\ buffer \in Seq(Symbols) /\ Len(buffer) \in Nat
  BY ComesTo
<1>2. f[1] \in Nat /\ f[2] \in Nat /\ f[1] <= s.at /\ s.at < f[2]
  <2>1. f[1] \in Nat /\ f[2] \in Nat
    BY DEF TypeOK
  <2> QED BY <1>1, <2>1
<1>3. (f[1] = s.at /\ buffer = <<>>) \/ (f[1] < s.at /\ Holds(f, s))
  BY <1>1, <1>2, WithoutReason
<1>4. /\ c \in Seq(Symbols) /\ Len(c) = Len(buffer) + 1 /\ c # <<>>
      /\ (\A i \in 1 .. Len(buffer) : c[i] = buffer[i]) /\ c[Len(buffer) + 1] = s
  BY <1>1, AppendProperties
<1> HIDE DEF c
<1>5. CASE f[1] = s.at /\ buffer = <<>>
  <2>1. s.of = f
    BY <1>1, <1>2, <1>5 DEF Telling
  <2>2. s.is = "first"
    BY <1>1, <1>5, <2>1 DEF Telling
  <2>3. buffer' = c
    <3>1. /\ Kept(Taken(buffer, s)) \in {<<>>, Append(buffer, s)}
          /\ buffer = <<>> /\ s.is = "first" => Kept(Taken(buffer, s)) # <<>>
      BY <1>1, Grows
    <3> QED BY <1>5, <2>2, <3>1 DEF c, Comes
  <2>4. Len(c) = 1 /\ c[1] = s
    <3>1. Len(buffer) = 0
      BY <1>5
    <3> QED BY <1>4, <3>1
  <2>5. Run(buffer)'
    BY <1>1, <2>3, <2>4 DEF Run
  <2> QED BY <1>1, <1>4, <1>5, <2>3, <2>4, <2>5
<1>6. CASE f[1] < s.at /\ Holds(f, s)
  <2>1. buffer' = c
    <3>1. s.at <= f[2]
      BY <1>1, <1>2
    <3> QED BY <1>2, <1>6, <3>1, Following DEF c
  <2>2. Run(buffer) /\ Ends(buffer, s.at) /\ buffer # <<>> /\ buffer[1].at = f[1]
    BY <1>6 DEF Holds, Ends
  <2>3. Run(c) /\ Ends(c, s.at + 1)
    BY <1>1, <2>2, RunsOn DEF c
  <2>4. c[1].at = f[1]
    <3>1. 1 \in 1 .. Len(buffer)
      BY <1>1, <2>2, EmptySeq
    <3> QED BY <1>4, <2>2, <3>1
  <2>5. Run(buffer)'
    BY <2>1, <2>3 DEF Run
  <2> QED BY <1>4, <2>1, <2>3, <2>4, <2>5 DEF Ends
<1> QED BY <1>3, <1>5, <1>6

LEMMA MissedNext ==
    ASSUME TypeOK, TypeOK', Script, NEW N \in Nat, Tracked(N), NEW s, Comes(s),
           NEW M, M = s.at + 1
    PROVE  Missed(M)'
<1> SUFFICES ASSUME NEW f \in whole, f[2] < M, f[1] \notin Got'
             PROVE  (\E c \in gone' \cup cuts' : c <= f[2]) /\ Near(f, f[2] + 1)'
  BY DEF Missed, Comes
<1>1. /\ s \in Symbols /\ s.at \in Nat /\ Telling(s) /\ N <= s.at
      /\ \A p \in N .. s.at - 1 : p \in gone
  BY ComesTo
<1>2. /\ f[1] \in Nat /\ f[2] \in Nat /\ f[1] + 3 <= f[2] /\ f[2] < f[1] + MaxTotal
      /\ MaxTotal \in Nat \ {0}
  BY GatewayHeadAssumption DEF TypeOK, Script, Layout
<1>3. gone \subseteq gone' /\ cuts' = cuts /\ strays' = strays /\ f[1] \notin Got
      /\ gone' \cup cuts \subseteq Nat
  BY DEF Comes, TypeOK
<1>4. CASE f[2] < N
  <2>1. (\E c \in gone \cup cuts : c <= f[2]) /\ Near(f, f[2] + 1)
    BY <1>3, <1>4 DEF Tracked, Missed
  <2> QED BY <1>3, <2>1 DEF Near
<1>5. CASE N <= f[2] /\ f[2] < s.at
  <2>1. f[2] \in gone
    BY <1>1, <1>2, <1>5
  <2>2. f[1] < f[2] + MaxTotal /\ f[2] < f[2] + 1 /\ f[2] <= f[2]
    BY <1>2
  <2> QED BY <1>3, <2>1, <2>2 DEF Near
<1>6. CASE f[2] = s.at
  <2>1. s.of = f /\ f[1] < s.at
    BY <1>1, <1>2, <1>6 DEF Telling
  <2>2. ASSUME Holds(f, s) PROVE f[1] \in gone'
    BY <1>1, <1>2, <1>6, <2>2, Following
  <2>3. \E c \in gone' \cup cuts : c <= f[2]
    <3> SUFFICES ASSUME \A c \in gone' \cup cuts : ~(c <= f[2]) PROVE FALSE
      OBVIOUS
    <3>1. \A d \in gone \cup cuts : s.at < d
      BY <1>1, <1>3, <1>6
    <3>2. Holds(f, s)
      BY <1>1, <2>1, <3>1, Stepping
    <3> QED BY <1>2, <2>2, <3>2
  <2>4. Near(f, f[2] + 1)'
    <3> SUFFICES ASSUME ~Near(f, M)' PROVE FALSE
      BY <1>6
    <3>1. Holds(f, s)
      BY <1>1, <1>2, <1>6, <2>1, WithoutReason
    <3>2. f[1] \in gone'
      BY <2>2, <3>1
    <3>3. f[1] < f[1] + MaxTotal /\ f[1] < M
      BY <1>1, <1>2, <2>1
    <3> QED BY <3>2, <3>3 DEF Near
  <2> QED BY <1>3, <2>3, <2>4
<1> QED BY <1>1, <1>2, <1>4, <1>5, <1>6

LEMMA ScriptStays ==
    ASSUME Script, UNCHANGED <<whole, cuts, strays, written>>,
           Coming' \cup Items(buffer)' \subseteq Coming \cup Items(buffer)
    PROVE  Script'
<1>1. \A p : Boundary(p)' <=> Boundary(p)
  BY DEF Boundary
<1>2. \A s : Telling(s) => Telling(s)'
  BY <1>1 DEF Telling
<1>3. Layout'
  BY <1>1 DEF Script, Layout
<1> QED BY <1>2, <1>3 DEF Script

LEMMA TrackParsing ==
    ASSUME TypeOK, TypeOK', Pipe, Order, Track, Parse
    PROVE  Track'
<1>1. PICK N \in Nat : Tracked(N)
  BY DEF Track
<1>0. PICK s : s = hand[1]
  OBVIOUS
<1>2. Comes(s) /\ s \in Symbols /\ s.at \in Nat
  <2>1. Comes(s)
    BY <1>0, ComingParse
  <2> QED BY <2>1 DEF Comes, Symbols
<1>3. Script
  BY DEF Track
<1>4. PICK M \in Nat : M = s.at + 1
  BY <1>2
<1>5. Tracked(M)'
  <2>1. Cursor(M)' /\ Growing(buffer)' /\ Reaching(buffer, gone, M)'
    BY <1>1, <1>2, <1>3, <1>4, CursorNext
  <2>2. InStep(M)'
    BY <1>1, <1>2, <1>3, <1>4, InStepNext
  <2>3. InFrame(M)'
    BY <1>1, <1>2, <1>3, <1>4, InFrameNext
  <2>4. Missed(M)'
    BY <1>1, <1>2, <1>3, <1>4, MissedNext
  <2> QED BY <2>1, <2>2, <2>3, <2>4 DEF Tracked
<1>6. Items(buffer)' \subseteq Items(buffer) \cup {s}
  <2>1. buffer \in Seq(Symbols) /\ Len(buffer) \in Nat
    BY DEF TypeOK
  <2>2. buffer' \in {<<>>, Append(buffer, s)}
    BY <1>2, <2>1, ParserFacts DEF Comes
  <2>3. CASE buffer' = <<>>
    BY <2>3 DEF Items
  <2>4. CASE buffer' = Append(buffer, s)
    <3>1. /\ Len(buffer') = Len(buffer) + 1 /\ buffer'[Len(buffer) + 1] = s
          /\ \A i \in 1 .. Len(buffer) : buffer'[i] = buffer[i]
      BY <1>2, <2>1, <2>4, AppendProperties
    <3>2. ASSUME NEW i \in 1 .. Len(buffer')
          PROVE  buffer'[i] = s \/ \E k \in 1 .. Len(buffer) : buffer'[i] = buffer[k]
      <4>1. i = Len(buffer) + 1 \/ i \in 1 .. Len(buffer)
        BY <2>1, <3>1
      <4> QED BY <3>1, <4>1
    <3> QED BY <3>2 DEF Items
  <2> QED BY <2>2, <2>3, <2>4
<1>7. Script'
  <2>1. s \in Coming /\ Coming' \subseteq Coming /\ UNCHANGED <<whole, cuts, strays, written>>
    BY <1>2 DEF Comes
  <2> QED BY <1>3, <1>6, <2>1, ScriptStays
<1> QED BY <1>4, <1>5, <1>7 DEF Track

(* The other steps.                                                        *)
LEMMA TrackDrops ==
    ASSUME TypeOK, TypeOK', Track,
           UNCHANGED <<whole, cuts, strays, written>>, Got' = Got, gone \subseteq gone',
           Coming' \subseteq Coming, \A s \in Coming : s \in Coming' \/ s.at \in gone',
           buffer' = buffer \/ (buffer' = <<>> /\ \A i \in 1 .. Len(buffer) : buffer[i].at \in gone')
    PROVE  Track'
<1>1. PICK N \in Nat : Tracked(N)
  BY DEF Track
<1>2. Tracked(N)'
  BY <1>1, TrackDropping
<1>3. Items(buffer)' \subseteq Items(buffer)
  BY DEF Items
<1>4. Script'
  BY <1>3, ScriptStays DEF Track
<1> QED BY <1>2, <1>4 DEF Track

\* What lies in a queue of chunks.
Lying(cs) == UNION {Items(t) : t \in Items(cs)}

LEMMA ComingIs ==
    /\ Coming = Items(wire) \cup Items(hand) \cup Lying(chunks)
    /\ Coming' = Items(wire') \cup Items(hand') \cup Lying(chunks')
<1>1. \A cs : Lying(cs) = UNION {Items(cs[i]) : i \in 1 .. Len(cs)}
  BY DEF Lying, Items
<1>2. Items(wire)' = Items(wire') /\ Items(hand)' = Items(hand')
  BY DEF Items
<1>3. (UNION {Items(chunks[i]) : i \in 1 .. Len(chunks)})'
        = UNION {Items(chunks'[i]) : i \in 1 .. Len(chunks')}
  BY DEF Items
<1> QED BY <1>1, <1>2, <1>3 DEF Coming

LEMMA ItemsWith ==
    ASSUME NEW S, NEW s \in Seq(S), NEW x \in S
    PROVE  Items(Append(s, x)) = Items(s) \cup {x}
<1>1. /\ Len(Append(s, x)) = Len(s) + 1 /\ Append(s, x)[Len(s) + 1] = x /\ Len(s) \in Nat
      /\ \A i \in 1 .. Len(s) : Append(s, x)[i] = s[i]
  BY AppendProperties
<1> DEFINE c == Append(s, x)
<1>2. ASSUME NEW i \in 1 .. Len(s) + 1 PROVE c[i] \in Items(s) \cup {x}
  <2>1. i = Len(s) + 1 \/ i \in 1 .. Len(s)
    BY <1>1
  <2> QED BY <1>1, <2>1 DEF Items
<1>3. Len(s) + 1 \in 1 .. Len(s) + 1 /\ \A i \in 1 .. Len(s) : i \in 1 .. Len(s) + 1
  BY <1>1
<1> QED BY <1>1, <1>2, <1>3 DEF Items

LEMMA ItemsParted ==
    ASSUME NEW S, NEW s \in Seq(S), NEW k \in 1 .. Len(s)
    PROVE  Items(s) = Items(SubSeq(s, 1, k)) \cup Items(SubSeq(s, k + 1, Len(s)))
<1> DEFINE a == SubSeq(s, 1, k)
           b == SubSeq(s, k + 1, Len(s))
<1>1. /\ Len(s) \in Nat /\ Len(a) = k /\ \A i \in 1 .. k : a[i] = s[i]
      /\ Len(b) = Len(s) - k /\ \A i \in 1 .. Len(s) - k : b[i] = s[k + i]
  BY Cutting
<1> HIDE DEF a, b
<1>2. ASSUME NEW i \in 1 .. Len(s) PROVE s[i] \in Items(a) \cup Items(b)
  <2>1. CASE i <= k
    <3>1. i \in 1 .. k
      BY <1>1, <2>1
    <3> QED BY <1>1, <3>1 DEF Items
  <2>2. CASE i > k
    <3>1. i - k \in 1 .. Len(s) - k /\ k + (i - k) = i
      BY <1>1, <2>2
    <3> QED BY <1>1, <3>1 DEF Items
  <2> QED BY <1>1, <2>1, <2>2
<1>3. ASSUME NEW i \in 1 .. k PROVE a[i] \in Items(s)
  BY <1>1 DEF Items
<1>4. ASSUME NEW i \in 1 .. Len(s) - k PROVE b[i] \in Items(s)
  <2>1. k + i \in 1 .. Len(s)
    BY <1>1
  <2> QED BY <1>1, <2>1 DEF Items
<1> QED BY <1>1, <1>2, <1>3, <1>4 DEF Items, a, b

LEMMA TrackReceiving ==
    ASSUME TypeOK, TypeOK', Track, Receive
    PROVE  Track'
<1>1. wire \in Seq(Symbols) /\ wire # <<>> /\ chunks \in Seq(Seq(Symbols))
  BY DEF TypeOK, Receive
<1>2. PICK size \in ChunkSizes :
         LET k == IF size < Len(wire) THEN size ELSE Len(wire)
             chunk == SubSeq(wire, 1, k)
         IN /\ wire' = SubSeq(wire, k + 1, Len(wire))
            /\ \/ chunks' = Append(chunks, chunk) /\ UNCHANGED gone
               \/ gone' = gone \cup Positions(chunk) /\ UNCHANGED chunks
  BY DEF Receive
<1> DEFINE k == IF size < Len(wire) THEN size ELSE Len(wire)
           chunk == SubSeq(wire, 1, k)
<1>3. k \in 1 .. Len(wire)
  <2>1. size \in Nat \ {0} /\ Len(wire) \in Nat \ {0}
    BY <1>1, Rest, GatewayHeadAssumption
  <2> QED BY <2>1
<1>4. /\ wire' = SubSeq(wire, k + 1, Len(wire))
      /\ \/ chunks' = Append(chunks, chunk) /\ UNCHANGED gone
         \/ gone' = gone \cup Positions(chunk) /\ UNCHANGED chunks
  BY <1>2
<1> HIDE DEF k
<1>5. chunk \in Seq(Symbols) /\ Items(wire) = Items(chunk) \cup Items(wire')
  BY <1>1, <1>3, <1>4, Cutting, ItemsParted
<1> HIDE DEF chunk
<1>6. UNCHANGED <<whole, cuts, strays, written, hand, buffer, rx, handled>>
  BY DEF Receive, link
<1>7. Got' = Got
  BY <1>6 DEF Got
<1>8. /\ Coming = Items(wire) \cup Items(hand) \cup Lying(chunks)
      /\ Coming' = Items(wire') \cup Items(hand) \cup Lying(chunks')
  BY <1>6, ComingIs
<1>9. CASE chunks' = Append(chunks, chunk) /\ UNCHANGED gone
  <2>1. Items(chunks') = Items(chunks) \cup {chunk}
    BY <1>1, <1>5, <1>9, ItemsWith
  <2>2. Lying(chunks') = Lying(chunks) \cup Items(chunk)
    BY <2>1 DEF Lying
  <2>3. Coming' = Coming
    BY <1>5, <1>8, <2>2
  <2> QED BY <1>6, <1>7, <1>9, <2>3, TrackDrops
<1>10. CASE gone' = gone \cup Positions(chunk) /\ UNCHANGED chunks
  <2>1. \A s \in Items(chunk) : s.at \in Positions(chunk)
    BY <1>5 DEF Items, Positions
  <2>2. Coming' \subseteq Coming /\ \A s \in Coming : s \in Coming' \/ s.at \in gone'
    BY <1>5, <1>8, <1>10, <2>1
  <2> QED BY <1>6, <1>7, <1>10, <2>2, TrackDrops
<1> QED BY <1>4, <1>9, <1>10

LEMMA TrackClearing ==
    ASSUME TypeOK, TypeOK', Track, ResetParser \/ Drain \/ Fetch, Pieces
    PROVE  Track'
<1>1. /\ buffer \in Seq(Symbols) /\ chunks \in Seq(Seq(Symbols)) /\ hand \in Seq(Symbols)
      /\ \A t \in Seq(Symbols) : \A x \in Items(t) : x.at \in Positions(t)
  <2>1. \A t \in Seq(Symbols) : \A x \in Items(t) : x.at \in Positions(t)
    BY DEF Items, Positions
  <2> QED BY <2>1 DEF TypeOK
<1>2. UNCHANGED <<whole, cuts, strays, written, wire, rx, handled>>
  BY DEF ResetParser, Drain, Fetch, host, link
<1>3. Got' = Got
  BY <1>2 DEF Got
<1>4. /\ Coming = Items(wire) \cup Items(hand) \cup Lying(chunks)
      /\ Coming' = Items(wire) \cup Items(hand') \cup Lying(chunks')
  BY <1>2, ComingIs
<1>5. CASE ResetParser
  <2>1. UNCHANGED <<chunks, hand>> /\ buffer' = <<>> /\ gone' = gone \cup Positions(buffer)
    BY <1>5 DEF ResetParser, backend
  <2>2. \A i \in 1 .. Len(buffer) : buffer[i].at \in gone'
    BY <1>1, <2>1 DEF Items
  <2> QED BY <1>2, <1>3, <1>4, <2>1, <2>2, TrackDrops
<1>6. ASSUME chunks # <<>>, chunks' = Tail(chunks)
      PROVE  Lying(chunks) = Items(chunks[1]) \cup Lying(chunks') /\ chunks[1] = Head(chunks)
             /\ chunks[1] \in Seq(Symbols)
  <2>1. Items(chunks) = {chunks[1]} \cup Items(chunks')
    BY <1>1, <1>6, ItemsOfRest
  <2>2. chunks[1] = Head(chunks) /\ chunks[1] \in Seq(Symbols)
    BY <1>1, <1>6, Rest
  <2> QED BY <2>1, <2>2 DEF Lying
<1>7. CASE Drain
  <2>1. UNCHANGED <<hand, buffer>>
    BY <1>7 DEF Drain, link
  <2>2. CASE UNCHANGED <<chunks, gone>>
    BY <1>2, <1>3, <1>4, <2>1, <2>2, TrackDrops
  <2>3. CASE chunks # <<>> /\ chunks' = Tail(chunks) /\ gone' = gone \cup Positions(Head(chunks))
    <3>1. \A x \in Items(chunks[1]) : x.at \in gone'
      BY <1>1, <1>6, <2>3
    <3> QED BY <1>2, <1>3, <1>4, <1>6, <2>1, <2>3, <3>1, TrackDrops
  <2> QED BY <1>7, <2>2, <2>3 DEF Drain
<1>8. CASE Fetch
  <2>1. UNCHANGED <<buffer, gone>>
    BY <1>8 DEF Fetch
  <2>2. CASE UNCHANGED <<chunks, hand>>
    BY <1>2, <1>3, <1>4, <2>1, <2>2, TrackDrops
  <2>3. CASE chunks # <<>> /\ hand' = Head(chunks) /\ chunks' = Tail(chunks)
    <3>1. hand = <<>>
      BY <1>8 DEF Fetch, Pieces
    <3>2. Items(hand) = {}
      BY <3>1 DEF Items
    <3>3. Coming' = Coming
      BY <1>4, <1>6, <2>3, <3>2
    <3> QED BY <1>2, <1>3, <2>1, <3>3, TrackDrops
  <2> QED BY <1>8, <2>2, <2>3 DEF Fetch
<1> QED BY <1>5, <1>7, <1>8

LEMMA TrackHandling ==
    ASSUME TypeOK, TypeOK', Track, HandleUsb
    PROVE  Track'
<1>1. UNCHANGED <<whole, cuts, strays, written, gone, wire, hand, chunks, buffer>>
  BY DEF HandleUsb, host, backend
<1>2. Coming' = Coming
  BY <1>1 DEF Coming
<1>3. Got' = Got
  <2>1. handled \in Seq(Nat) /\ rx \in Seq(Nat) /\ handled' \in Seq(Nat) /\ rx' \in Seq(Nat)
    BY DEF TypeOK
  <2>2. Got = Items(handled) \cup Items(rx) /\ Got' = Items(handled') \cup Items(rx')
    BY <2>1 DEF Got, Items
  <2>3. CASE UNCHANGED <<rx, handled>>
    BY <2>3 DEF Got
  <2>4. CASE rx # <<>> /\ rx' = Tail(rx) /\ handled' = Append(handled, Head(rx))
    <3>1. Items(rx) = {rx[1]} \cup Items(rx') /\ rx[1] = Head(rx) /\ Head(rx) \in Nat
      BY <2>1, <2>4, ItemsOfRest, Rest
    <3>2. Items(handled') = Items(handled) \cup {rx[1]}
      BY <2>1, <2>4, <3>1, ItemsWith
    <3> QED BY <2>2, <3>1, <3>2
  <2> QED BY <2>3, <2>4 DEF HandleUsb
<1> QED BY <1>1, <1>2, <1>3, TrackDrops

(* The host writes a frame of n symbols, or the first k of one.            *)
Extends(n, k, t) ==
    /\ n \in 4 .. MaxTotal /\ k \in 1 .. n /\ t \in Seq(Symbols) /\ Len(t) = k
    /\ \A i \in 1 .. k :
          /\ t[i].at = written + i - 1 /\ t[i].of = <<written, written + n - 1>>
          /\ i = 1 => t[i].is = "first"
          /\ i = 2 => t[i].is = "second"
          /\ i = 3 => t[i].is = "plain" /\ t[i].n + Overhead = n
          /\ t[i].is = "first" => i = 1 \/ t[i].at \in strays'
    /\ written' = written + k /\ strays \subseteq strays'
    /\ \/ k = n /\ whole' = whole \cup {<<written, written + n - 1>>} /\ UNCHANGED cuts
       \/ k < n /\ cuts' = cuts \cup {written + k - 1} /\ UNCHANGED whole
    /\ Coming' = Coming \cup Items(t) /\ UNCHANGED <<buffer, gone>> /\ Got' = Got

LEMMA Lengths ==
    ASSUME TypeOK, NEW n, NEW k, NEW t, Extends(n, k, t)
    PROVE  /\ written \in Nat /\ n \in Nat /\ k \in Nat /\ 4 <= n /\ n <= MaxTotal /\ 1 <= k
           /\ k <= n /\ MaxTotal \in Nat /\ written' = written + k
           /\ cuts \subseteq Nat /\ whole \subseteq Nat \X Nat
<1>1. MaxTotal \in Nat
  BY Depths
<1>2. n \in 4 .. MaxTotal /\ k \in 1 .. n /\ written' = written + k
  BY DEF Extends
<1>3. written \in Nat /\ cuts \subseteq Nat /\ whole \subseteq Nat \X Nat
  BY DEF TypeOK
<1> QED BY <1>1, <1>2, <1>3

LEMMA BoundariesGrow ==
    ASSUME TypeOK, Layout, NEW n, NEW k, NEW t, Extends(n, k, t)
    PROVE  /\ \A p : Boundary(p) => Boundary(p)'
           /\ \A p : Boundary(p)' => Boundary(p) \/ p = written'
           /\ Boundary(written)'
           /\ \A p \in Nat : Boundary(p) => p <= written
<1>1. written \in Nat /\ n \in Nat /\ k \in Nat /\ written' = written + k
      /\ cuts \subseteq Nat /\ whole \subseteq Nat \X Nat
  BY Lengths
<1>2. \A p \in Nat : Boundary(p) => p <= written
  BY <1>1 DEF Boundary, Layout
<1>3. CASE k = n /\ whole' = whole \cup {<<written, written + n - 1>>} /\ UNCHANGED cuts
  <2> DEFINE h == <<written, written + n - 1>>
  <2>1. h[2] + 1 = written'
    BY <1>1, <1>3
  <2> HIDE DEF h
  <2>2. whole' = whole \cup {h} /\ cuts' = cuts
    BY <1>3 DEF h
  <2>3. \A p : Boundary(p)' <=> Boundary(p) \/ p = h[2] + 1
    BY <2>2 DEF Boundary
  <2> QED BY <1>2, <2>1, <2>3
<1>4. CASE k < n /\ cuts' = cuts \cup {written + k - 1} /\ UNCHANGED whole
  <2>1. (written + k - 1) + 1 = written'
    BY <1>1
  <2>2. \A p : Boundary(p)' <=> Boundary(p) \/ p = (written + k - 1) + 1
    BY <1>4 DEF Boundary
  <2> QED BY <1>2, <2>1, <2>2
<1> QED BY <1>3, <1>4 DEF Extends

LEMMA LayoutGrows ==
    ASSUME TypeOK, Layout, NEW n, NEW k, NEW t, Extends(n, k, t)
    PROVE  Layout'
<1> DEFINE h == <<written, written + n - 1>>
<1>1. /\ written \in Nat /\ n \in Nat /\ k \in Nat /\ 4 <= n /\ n <= MaxTotal /\ 1 <= k /\ k <= n
      /\ MaxTotal \in Nat /\ written' = written + k
      /\ cuts \subseteq Nat /\ whole \subseteq Nat \X Nat
  BY Lengths
<1>2. Boundary(written)'
  BY BoundariesGrow
<1>3. h[1] = written /\ h[2] = written + n - 1
  OBVIOUS
<1> HIDE DEF h
<1>4. whole' = whole \/ (k = n /\ whole' = whole \cup {h})
  BY DEF Extends, h
<1>5. cuts' = cuts \/ cuts' = cuts \cup {written + k - 1}
  BY DEF Extends
<1>6. \A c \in cuts' : c < written'
  <2>1. \A c \in cuts : c < written
    BY DEF Layout
  <2>2. \A c \in cuts' : c \in cuts \/ c = written + k - 1
    BY <1>5
  <2>3. \A c \in cuts : c \in Nat /\ c < written + k
    BY <1>1, <2>1
  <2>4. written + k - 1 < written + k
    BY <1>1
  <2> QED BY <1>1, <2>2, <2>3, <2>4
<1>7. ASSUME NEW f \in whole'
      PROVE  f[1] + 3 <= f[2] /\ f[2] < written' /\ f[2] < f[1] + MaxTotal
  <2>1. CASE f \in whole
    BY <1>1, <2>1 DEF Layout
  <2>2. CASE f = h /\ k = n
    BY <1>1, <1>3, <2>2
  <2> QED BY <1>4, <1>7, <2>1, <2>2
<1>8. \A f, g \in whole' : f = g \/ f[2] < g[1] \/ g[2] < f[1]
  <2>1. \A f \in whole : f[2] < h[1]
    BY <1>3 DEF Layout
  <2>2. \A f, g \in whole : f = g \/ f[2] < g[1] \/ g[2] < f[1]
    BY DEF Layout
  <2>3. \A f \in whole' : f \in whole \/ f = h
    BY <1>4
  <2> QED BY <2>1, <2>2, <2>3
<1> QED BY <1>2, <1>6, <1>7, <1>8 DEF Layout

LEMMA ScriptGrows ==
    ASSUME TypeOK, Script, NEW n, NEW k, NEW t, Extends(n, k, t)
    PROVE  Script'
<1>0. PICK h : h = <<written, written + n - 1>>
  OBVIOUS
<1>1. /\ written \in Nat /\ n \in Nat /\ k \in Nat /\ 4 <= n /\ n <= MaxTotal /\ 1 <= k /\ k <= n
      /\ MaxTotal \in Nat /\ written' = written + k
      /\ cuts \subseteq Nat /\ whole \subseteq Nat \X Nat
  BY Lengths
<1>2. Layout
  BY DEF Script
<1>3. Layout'
  BY <1>2, LayoutGrows
<1>4. /\ \A p : Boundary(p) => Boundary(p)'
      /\ \A p : Boundary(p)' => Boundary(p) \/ p = written'
      /\ \A p \in Nat : Boundary(p) => p <= written
  BY <1>2, BoundariesGrow
<1>5. h[1] = written /\ h[2] = written + n - 1
  BY <1>0
<1>6. /\ whole \subseteq whole' /\ cuts \subseteq cuts' /\ strays \subseteq strays'
      /\ whole' \subseteq whole \cup {h}
      /\ \/ k = n /\ h \in whole'
         \/ k < n /\ whole' = whole /\ written + k - 1 \in cuts'
  BY <1>0 DEF Extends
<1>7. ASSUME NEW s \in Coming \cup Items(buffer) PROVE Telling(s)'
  <2>1. Telling(s) /\ s \in Symbols
    <3>1. Items(buffer) \subseteq Symbols
      BY DEF TypeOK, Items
    <3> QED BY <3>1, ComingAre DEF Script
  <2>2. s.at \in Nat /\ s.of[1] \in Nat /\ s.of[2] \in Nat
    BY <2>1 DEF Symbols
  <2>3. s.at < written /\ s.at < written'
    BY <1>1, <2>1, <2>2 DEF Telling
  <2>4. Boundary(s.of[1])'
    BY <1>4, <2>1 DEF Telling
  <2>5. ASSUME NEW p \in s.of[1] + 1 .. s.at PROVE ~Boundary(p)'
    <3>1. ~Boundary(p) /\ p # written'
      BY <1>1, <2>1, <2>2, <2>3 DEF Telling
    <3> QED BY <1>4, <3>1
  <2>6. ASSUME NEW f \in whole', f[1] <= s.at, s.at <= f[2] PROVE s.of = f
    <3>1. f # h
      BY <1>1, <1>5, <2>2, <2>3, <2>6
    <3> QED BY <1>6, <2>1, <2>6, <3>1 DEF Telling
  <2>7. \/ s.of \in whole'
        \/ \E c \in cuts' : /\ s.at <= c /\ c < s.of[2]
                            /\ \A f \in whole' : f[1] <= s.at \/ c < f[1]
    <3>1. CASE s.of \in whole
      BY <1>6, <3>1
    <3>2. CASE s.of \notin whole
      <4>1. PICK c \in cuts : /\ s.at <= c /\ c < s.of[2]
                              /\ \A f \in whole : f[1] <= s.at \/ c < f[1]
        BY <2>1, <3>2 DEF Telling
      <4>2. c < h[1]
        BY <1>2, <1>5 DEF Layout
      <4> QED BY <1>6, <4>1, <4>2
    <3> QED BY <3>1, <3>2
  <2> QED BY <1>6, <2>1, <2>3, <2>4, <2>5, <2>6, <2>7 DEF Telling
<1>8. ASSUME NEW i \in 1 .. k, NEW s, s = t[i] PROVE Telling(s)'
  <2>1. /\ s.at = written + i - 1 /\ s.of = h /\ s \in Symbols
        /\ i = 1 => s.is = "first"
        /\ i = 2 => s.is = "second"
        /\ i = 3 => s.is = "plain" /\ s.n + Overhead = n
        /\ s.is = "first" => i = 1 \/ s.at \in strays'
    BY <1>0, <1>8 DEF Extends
  <2>2. s.at \in Nat /\ s.n \in Nat /\ i \in Nat /\ 1 <= i /\ i <= k
    BY <1>1, <2>1 DEF Symbols
  <2>3. s.at < written' /\ h[1] <= s.at /\ s.at <= h[2] /\ h[2] < h[1] + MaxTotal
    BY <1>1, <1>5, <2>1, <2>2
  <2>4. /\ s.is = "first" => s.at = h[1] \/ s.at \in strays'
        /\ s.at = h[1] => s.is = "first"
        /\ s.at = h[1] + 1 => s.is = "second"
        /\ s.at = h[1] + 2 => h[1] + s.n + Overhead = h[2] + 1
    <3>1. (i = 1 <=> s.at = h[1]) /\ (i = 2 <=> s.at = h[1] + 1) /\ (i = 3 <=> s.at = h[1] + 2)
      BY <1>1, <1>5, <2>1, <2>2
    <3>2. s.n + Overhead = n => h[1] + s.n + Overhead = h[2] + 1
      BY <1>1, <1>5, <2>2 DEF Overhead
    <3> QED BY <2>1, <3>1, <3>2
  <2>5. Boundary(h[1])'
    BY <1>2, <1>4, <1>5 DEF Layout
  <2>6. ASSUME NEW p \in h[1] + 1 .. s.at PROVE ~Boundary(p)'
    <3>1. p \in Nat /\ written < p /\ p # written'
      BY <1>1, <1>5, <2>2, <2>3
    <3>2. ~(p <= written)
      BY <1>1, <3>1
    <3> QED BY <1>4, <3>1, <3>2
  <2>7. \A f \in whole : f[2] < s.at /\ f[1] <= s.at
    <3>1. \A f \in whole : f[1] + 3 <= f[2] /\ f[2] < written /\ f[1] \in Nat /\ f[2] \in Nat
      BY <1>1, <1>2 DEF Layout
    <3> QED BY <1>1, <2>1, <2>2, <3>1
  <2>8. \A f \in whole' : f[1] <= s.at /\ s.at <= f[2] => s.of = f
    <3>1. \A f \in whole : ~(s.at <= f[2])
      BY <1>1, <2>2, <2>7
    <3> QED BY <1>6, <2>1, <3>1
  <2>9. \/ h \in whole'
        \/ \E c \in cuts' : /\ s.at <= c /\ c < h[2]
                            /\ \A f \in whole' : f[1] <= s.at \/ c < f[1]
    <3>1. CASE k < n /\ whole' = whole /\ written + k - 1 \in cuts'
      <4>1. s.at <= written + k - 1 /\ written + k - 1 < h[2]
        BY <1>1, <1>5, <2>1, <2>2, <3>1
      <4> QED BY <2>7, <3>1, <4>1
    <3> QED BY <1>6, <3>1
  <2> QED BY <2>1, <2>3, <2>4, <2>5, <2>6, <2>8, <2>9 DEF Telling
<1>9. \A s \in Coming' \cup Items(buffer)' : s \in Coming \cup Items(buffer) \/ \E i \in 1 .. k : s = t[i]
  BY DEF Extends, Items
<1> QED BY <1>3, <1>7, <1>8, <1>9 DEF Script

LEMMA TrackGrows ==
    ASSUME TypeOK, TypeOK', Track, NEW n, NEW k, NEW t, Extends(n, k, t)
    PROVE  Track'
<1> DEFINE h == <<written, written + n - 1>>
<1>1. /\ written \in Nat /\ n \in Nat /\ k \in Nat /\ 4 <= n /\ 1 <= k /\ k <= n
      /\ written' = written + k
  BY Lengths
<1>2. PICK N \in Nat : Tracked(N)
  BY DEF Track
<1>3. Layout /\ Script'
  BY ScriptGrows DEF Script, Track
<1>4. /\ \A p : Boundary(p) => Boundary(p)'
      /\ \A p : Boundary(p)' => Boundary(p) \/ p = written'
  BY <1>3, BoundariesGrow
<1>5. h[1] = written /\ h[2] = written + n - 1
  OBVIOUS
<1> HIDE DEF h
<1>6. /\ whole' \subseteq whole \cup {h} /\ cuts \subseteq cuts' /\ strays \subseteq strays'
      /\ Coming' = Coming \cup Items(t) /\ UNCHANGED <<buffer, gone>> /\ Got' = Got
      /\ Len(t) = k /\ \A i \in 1 .. k : t[i].at = written + i - 1
  BY DEF Extends, h
<1>7. N <= written
  BY <1>2 DEF Tracked, Cursor
<1>8. Cursor(N)'
  <2>1. N <= written'
    BY <1>1, <1>7
  <2>2. \A s \in Coming' : N <= s.at
    <3>1. \A s \in Coming : N <= s.at
      BY <1>2 DEF Tracked, Cursor
    <3>2. \A i \in 1 .. k : N <= t[i].at
      BY <1>1, <1>6, <1>7
    <3> QED BY <1>6, <3>1, <3>2 DEF Items
  <2>3. ASSUME NEW p \in N .. written' - 1 PROVE (\E s \in Coming' : s.at = p) \/ p \in gone'
    <3>1. CASE p < written
      <4>1. p \in N .. written - 1
        BY <1>1, <3>1
      <4>2. (\E s \in Coming : s.at = p) \/ p \in gone
        BY <1>2, <4>1 DEF Tracked, Cursor
      <4> QED BY <1>6, <4>2
    <3>2. CASE written <= p
      <4>1. p - written + 1 \in 1 .. k /\ written + (p - written + 1) - 1 = p
        BY <1>1, <3>2
      <4>2. t[p - written + 1].at = p /\ t[p - written + 1] \in Items(t)
        BY <1>6, <4>1 DEF Items
      <4> QED BY <1>6, <4>2
    <3> QED BY <1>1, <3>1, <3>2
  <2> QED BY <2>1, <2>2, <2>3 DEF Cursor
<1>9. Growing(buffer)' /\ Reaching(buffer, gone, N)'
  BY <1>2, <1>6 DEF Tracked, Growing, Reaching, Run
<1>10. InStep(N)'
  <2>1. N # written' /\ \A p \in buffer[1].at + 1 .. N : p # written'
    BY <1>1, <1>7
  <2>2. (\A c \in gone' \cup cuts' : N <= c) => \A c \in gone \cup cuts : N <= c
    BY <1>6
  <2> QED BY <1>2, <1>4, <1>6, <2>1, <2>2 DEF Tracked, InStep
<1>11. \A f : \A p : Near(f, p) => Near(f, p)'
  BY <1>6 DEF Near
<1>12. ~(h[1] < N) /\ ~(h[2] < N)
  BY <1>1, <1>5, <1>7
<1>13. InFrame(N)'
  <2>1. \A f \in whole' : f[1] < N => f \in whole
    BY <1>6, <1>12
  <2>2. Run(buffer)' <=> Run(buffer)
    BY <1>6 DEF Run
  <2> QED BY <1>2, <1>6, <1>11, <2>1, <2>2 DEF Tracked, InFrame
<1>14. Missed(N)'
  <2>1. \A f \in whole' : f[2] < N => f \in whole
    BY <1>6, <1>12
  <2> QED BY <1>2, <1>6, <1>11, <2>1 DEF Tracked, Missed
<1> QED BY <1>3, <1>8, <1>9, <1>10, <1>13, <1>14 DEF Track, Tracked

LEMMA FrameReads ==
    ASSUME NEW p \in Nat, NEW body \in Written, NEW junk
    PROVE  LET f == Frame(p, body, junk)
           IN  /\ Len(f) \in 4 .. MaxTotal
               /\ f[1].is = "first" /\ f[2].is = "second" /\ f[3].is = "plain"
<1> DEFINE lead == <<"first", "second", "plain">>
           reads == lead \o body
           Read == {"first", "second", "plain"}
           sym(i) == [at |-> p + i - 1, of |-> <<p, p + Len(reads) - 1>>, is |-> reads[i],
                      n |-> IF i = 3 THEN Len(body) - 1 ELSE junk]
<1>1. PICK m \in 0 .. MaxTotal - Overhead : body \in [1 .. m + 1 -> Bodies]
  BY DEF Written
<1>2. m \in Nat /\ m + 4 <= MaxTotal /\ MaxTotal \in Nat
  <2>1. MaxTotal \in Nat
    BY GatewayHeadAssumption
  <2> QED BY <2>1 DEF Overhead
<1>3. body \in Seq(Read) /\ Len(body) = m + 1
  <2>1. m \in Nat /\ m + 1 \in Nat
    BY <1>2
  <2>2. body \in [1 .. m + 1 -> Read]
    BY <1>1, GatewayHeadAssumption
  <2> HIDE DEF Read
  <2> QED BY <2>1, <2>2
<1>4. /\ lead \in Seq(Read) /\ Len(lead) = 3
      /\ lead[1] = "first" /\ lead[2] = "second" /\ lead[3] = "plain"
  OBVIOUS
<1> HIDE DEF lead, Read
<1>5. Len(reads) = m + 4 /\ reads[1] = "first" /\ reads[2] = "second" /\ reads[3] = "plain"
  <2>1. /\ Len(lead \o body) = Len(lead) + Len(body)
        /\ \A i \in 1 .. Len(lead) + Len(body) :
              (lead \o body)[i] = IF i <= Len(lead) THEN lead[i] ELSE body[i - Len(lead)]
    BY <1>3, <1>4, ConcatProperties
  <2>2. {1, 2, 3} \subseteq 1 .. m + 4 /\ 3 + (m + 1) = m + 4
    BY <1>2
  <2> QED BY <1>2, <1>3, <1>4, <2>1, <2>2
<1> HIDE DEF reads
<1>6. Frame(p, body, junk) = [i \in 1 .. m + 4 |-> sym(i)]
  BY <1>5 DEF Frame, reads, lead
<1>7. \A i : sym(i).is = reads[i]
  OBVIOUS
<1> HIDE DEF sym
<1>8. Len([i \in 1 .. m + 4 |-> sym(i)]) = m + 4
  BY <1>2
<1>9. {1, 2, 3} \subseteq 1 .. m + 4 /\ m + 4 \in 4 .. MaxTotal
  BY <1>2
<1> QED BY <1>5, <1>6, <1>7, <1>8, <1>9

LEMMA ItemsJoined ==
    ASSUME NEW S, NEW s \in Seq(S), NEW t \in Seq(S)
    PROVE  Items(s \o t) = Items(s) \cup Items(t)
<1> DEFINE w == s \o t
           m == Len(s)
           n == Len(t)
<1>1. /\ m \in Nat /\ n \in Nat /\ Len(w) = m + n
      /\ \A i \in 1 .. m + n : w[i] = IF i <= m THEN s[i] ELSE t[i - m]
  BY ConcatProperties
<1> HIDE DEF w, m, n
<1>2. ASSUME NEW i \in 1 .. m + n PROVE w[i] \in Items(s) \cup Items(t)
  <2>1. i \in 1 .. m \/ (i - m \in 1 .. n /\ ~(i <= m))
    BY <1>1
  <2>2. CASE i \in 1 .. m
    <3>1. i <= m
      BY <1>1, <2>2
    <3> QED BY <1>1, <2>2, <3>1 DEF Items, m
  <2>3. CASE i - m \in 1 .. n /\ ~(i <= m)
    BY <1>1, <2>3 DEF Items, n
  <2> QED BY <2>1, <2>2, <2>3
<1>3. ASSUME NEW i \in 1 .. m PROVE s[i] \in Items(w)
  <2>1. i \in 1 .. m + n /\ i <= m
    BY <1>1
  <2> QED BY <1>1, <2>1 DEF Items
<1>4. ASSUME NEW i \in 1 .. n PROVE t[i] \in Items(w)
  <2>1. m + i \in 1 .. m + n /\ ~(m + i <= m) /\ (m + i) - m = i
    BY <1>1
  <2>2. w[m + i] = t[i]
    BY <1>1, <2>1
  <2> QED BY <1>1, <2>1, <2>2 DEF Items
<1>5. Items(w) \subseteq Items(s) \cup Items(t)
  BY <1>1, <1>2 DEF Items
<1>6. Items(s) \cup Items(t) \subseteq Items(w)
  <2>1. Items(s) = {s[i] : i \in 1 .. m} /\ Items(t) = {t[i] : i \in 1 .. n}
    BY DEF Items, m, n
  <2> QED BY <1>3, <1>4, <2>1
<1> QED BY <1>5, <1>6 DEF w

LEMMA PutExtends ==
    ASSUME TypeOK, NEW f \in Seq(Symbols), Len(f) \in 4 .. MaxTotal,
           f[1].is = "first", f[2].is = "second", f[3].is = "plain",
           \A i \in 1 .. Len(f) :
              /\ f[i].at = written + i - 1 /\ f[i].of = <<written, written + Len(f) - 1>>
              /\ i = 3 => f[i].n + Overhead = Len(f),
           NEW k \in 1 .. Len(f), NEW t \in Seq(Symbols), Len(t) = k, \A i \in 1 .. k : t[i] = f[i],
           Put(t),
           \/ k = Len(f) /\ whole' = whole \cup {f[1].of} /\ UNCHANGED cuts
           \/ k < Len(f) /\ cuts' = cuts \cup {written + k - 1} /\ UNCHANGED whole
    PROVE  Extends(Len(f), k, t)
<1>1. /\ wire' = wire \o t /\ written' = written + k
      /\ strays' = strays \cup {s \in Positions(t) :
                                  \E i \in 4 .. Len(t) : t[i].at = s /\ t[i].is = "first"}
      /\ UNCHANGED <<chunks, hand, buffer, rx, gone, handled>>
  BY DEF Put, backend, link
<1>2. wire \in Seq(Symbols) /\ Len(f) \in Nat /\ k \in Nat /\ Len(f) >= 4
  BY Depths DEF TypeOK
<1>3. Coming' = Coming \cup Items(t)
  <2>1. Items(wire \o t) = Items(wire) \cup Items(t)
    BY <1>2, ItemsJoined
  <2>2. Lying(chunks') = Lying(chunks) /\ Items(hand') = Items(hand)
    BY <1>1
  <2> QED BY <1>1, <2>1, <2>2, ComingIs
<1>4. Got' = Got
  BY <1>1 DEF Got
<1>5. ASSUME NEW i \in 1 .. k, t[i].is = "first", i # 1
      PROVE  t[i].at \in strays'
  <2>1. i # 2 /\ i # 3
    <3>1. \A m, n \in Nat : m \in 1 .. n => \A j \in 1 .. m : j \in 1 .. n
      OBVIOUS
    <3>2. i \in 1 .. Len(f) /\ t[i] = f[i]
      BY <1>2, <3>1
    <3> QED BY <1>5, <3>2
  <2>2. i \in 4 .. Len(t)
    <3>1. \A n \in Nat : \A j \in 1 .. n : j # 1 /\ j # 2 /\ j # 3 => j \in 4 .. n
      OBVIOUS
    <3>2. i \in 4 .. k
      BY <1>2, <1>5, <2>1, <3>1, Zenon
    <3> QED BY <3>2
  <2>3. t[i].at \in Positions(t)
    <3>1. DOMAIN t = 1 .. k
      BY <1>2
    <3> QED BY <3>1 DEF Positions
  <2> QED BY <1>1, <1>5, <2>2, <2>3
<1>6. \A i \in 1 .. k :
          /\ t[i].at = written + i - 1 /\ t[i].of = <<written, written + Len(f) - 1>>
          /\ i = 1 => t[i].is = "first"
          /\ i = 2 => t[i].is = "second"
          /\ i = 3 => t[i].is = "plain" /\ t[i].n + Overhead = Len(f)
  <2> TAKE i \in 1 .. k
  <2>1. t[i] = f[i] /\ i \in 1 .. Len(f)
    BY <1>2
  <2> QED BY <2>1
<1>7. f[1].of = <<written, written + Len(f) - 1>>
  <2>1. 1 \in 1 .. Len(f)
    BY <1>2
  <2> QED BY <2>1
<1>8. strays \subseteq strays'
  BY <1>1
<1> QED BY <1>1, <1>3, <1>4, <1>5, <1>6, <1>7, <1>8 DEF Extends

LEMMA TrackWriting ==
    ASSUME TypeOK, TypeOK', Track, Write \/ WriteCut
    PROVE  Track'
<1>1. written \in Nat
  BY DEF TypeOK
<1>2. PICK body \in Written, junk \in Junk :
         LET f == Frame(written, body, junk)
         IN  \/ Put(f) /\ whole' = whole \cup {f[1].of} /\ UNCHANGED cuts
             \/ /\ UNCHANGED whole
                /\ \E k \in 1 .. Len(f) - 1 :
                      Put(SubSeq(f, 1, k)) /\ cuts' = cuts \cup {written + k - 1}
  BY DEF Write, WriteCut
<1>3. PICK f : f = Frame(written, body, junk)
  OBVIOUS
<1>4. /\ f \in Seq(Symbols) /\ Len(f) \in 4 .. MaxTotal
      /\ f[1].is = "first" /\ f[2].is = "second" /\ f[3].is = "plain"
      /\ \A i \in 1 .. Len(f) :
            /\ f[i].at = written + i - 1 /\ f[i].of = <<written, written + Len(f) - 1>>
            /\ i = 3 => f[i].n + Overhead = Len(f)
  BY <1>1, <1>3, FrameFacts, FrameReads
<1>5. Len(f) \in Nat /\ Len(f) \in 1 .. Len(f)
  <2>1. MaxTotal \in Nat
    BY Depths
  <2> QED BY <1>4, <2>1
<1>6. CASE Put(f) /\ whole' = whole \cup {f[1].of} /\ UNCHANGED cuts
  <2>1. Extends(Len(f), Len(f), f)
    BY <1>4, <1>5, <1>6, PutExtends
  <2> QED BY <2>1, TrackGrows
<1>7. ASSUME NEW k \in 1 .. Len(f) - 1, Put(SubSeq(f, 1, k)),
             cuts' = cuts \cup {written + k - 1}, UNCHANGED whole
      PROVE  Track'
  <2>1. k \in 1 .. Len(f) /\ k < Len(f)
    BY <1>5
  <2>2. PICK t : t = SubSeq(f, 1, k)
    OBVIOUS
  <2>3. t \in Seq(Symbols) /\ Len(t) = k /\ \A i \in 1 .. k : t[i] = f[i]
    BY <1>4, <2>1, <2>2, Cutting
  <2>4. Extends(Len(f), k, t)
    BY <1>4, <1>7, <2>1, <2>2, <2>3, PutExtends
  <2> QED BY <2>4, TrackGrows
<1> QED BY <1>2, <1>3, <1>6, <1>7

LEMMA TrackBegins == Init => Track
<1> SUFFICES ASSUME Init PROVE Track
  OBVIOUS
<1>1. /\ wire = <<>> /\ hand = <<>> /\ chunks = <<>> /\ buffer = <<>>
      /\ whole = {} /\ cuts = {} /\ gone = {} /\ written = 0
  BY DEF Init
<1>2. Items(<<>>) = {}
  BY DEF Items
<1>3. Lying(<<>>) = {}
  BY <1>2 DEF Lying
<1>4. Coming = {} /\ Items(buffer) = {}
  BY <1>1, <1>2, <1>3, ComingIs
<1>5. Boundary(0)
  BY DEF Boundary
<1>6. Script
  BY <1>1, <1>4, <1>5 DEF Script, Layout
<1>7. Cursor(0)
  BY <1>1, <1>4 DEF Cursor
<1>8. Growing(buffer) /\ Reaching(buffer, gone, 0) /\ InStep(0)
  BY <1>1, <1>5 DEF Growing, Reaching, InStep
<1>9. InFrame(0) /\ Missed(0)
  BY <1>1 DEF InFrame, Missed
<1> QED BY <1>6, <1>7, <1>8, <1>9 DEF Track, Tracked

LEMMA TrackStep ==
    TypeOK /\ TypeOK' /\ Pipe /\ Order /\ Track /\ [Next]_vars => Track'
<1> SUFFICES ASSUME TypeOK, TypeOK', Pipe, Order, Track, [Next]_vars
             PROVE  Track'
  OBVIOUS
<1>1. CASE Write \/ WriteCut
  BY <1>1, TrackWriting
<1>2. CASE Receive
  BY <1>2, TrackReceiving
<1>3. CASE ResetParser \/ Drain \/ Fetch
  BY <1>3, TrackClearing DEF Pipe
<1>4. CASE Parse
  BY <1>4, TrackParsing
<1>5. CASE HandleUsb
  BY <1>5, TrackHandling
<1>6. CASE \/ Mark \/ Arrive \/ TxDone \/ Check \/ ServeRadio \/ HandleAir \/ Heartbeat
           \/ UNCHANGED vars
  <2>1. UNCHANGED <<wire, written, whole, cuts, strays, chunks, hand, buffer, rx, gone, handled>>
    BY <1>6 DEF Mark, Arrive, TxDone, Check, ServeRadio, HandleAir, Heartbeat, vars,
                host, backend, link
  <2>2. Coming' = Coming /\ Got' = Got
    BY <2>1 DEF Coming, Got
  <2> QED BY <2>1, <2>2, TrackDrops
<1> QED BY <1>1, <1>2, <1>3, <1>4, <1>5, <1>6 DEF Next, Poll

\* The parser resynchronises (usb_tinyusb_backend.c, usb_link_inject_rx_bytes):
\* a frame is lost only after a drop or a cut, and only if within one frame's
\* length before it, or in it, something was dropped or cut or reads as magic.
THEOREM LossIsExplained == Spec => []LossIsNear
<1>1. TypeOK /\ Track => LossIsNear
  BY TrackTells
<1>2. Spec => [](TypeOK /\ Pipe /\ Order /\ Track)
  BY Begin, OrderBegins, TrackBegins, Step, OrderStep, TrackStep, PTL DEF Spec
<1> QED BY <1>1, <1>2, PTL
=============================================================================
