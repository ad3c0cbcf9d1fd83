------------------------- MODULE JsonParserProofs --------------------------
(***************************************************************************)
(* TypeOK of the JSON parser for every set of input texts: pos never       *)
(* passes the end of the text by more than one, whatever the text.  The    *)
(* scanning helpers are defined by CHOOSE (ScanWhile) and by a recursive   *)
(* function (StrFrom's loop), which the provers see only as a CHOOSE; the  *)
(* lemmas below show that the chosen position exists and lies between the *)
(* start and the end of the text, by a least element (LeastNat).           *)
(***************************************************************************)
EXTENDS JsonParser, Functions, LeastElement, TLAPS

\* The structural characters the parser tells apart are distinct.
LEMMA CharsDistinct ==
  /\ Comma \notin {"]", RBrace, LBrace, "[", ":"}
  /\ RBrace \notin {"]", LBrace, "[", ":"}
  /\ LBrace \notin {"]", "[", ":"}
BY Zenon DEF Comma, RBrace, LBrace

\* The scan of skip_whitespace and parse_number stops inside the text.
LEMMA ScanWhileBound ==
  ASSUME text \in Seq(Chars), NEW p \in Nat, p < Len(text), NEW C
  PROVE  ScanWhile(p, C) \in p..Len(text)
<1> DEFINE L == Len(text)
           Stop == {q \in p..L : q = L \/ text[q + 1] \notin C}
<1>1. L \in Nat /\ L \in Stop
  OBVIOUS
<1>2. Stop \in SUBSET Nat /\ Stop # {}
  BY <1>1
<1>3. PICK m \in Stop : \A k \in Stop : m <= k
  BY <1>2, LeastNat
<1>4. \A i \in p..m - 1 : text[i + 1] \in C
  <2> SUFFICES ASSUME NEW i \in p..m - 1, text[i + 1] \notin C PROVE FALSE
    OBVIOUS
  <2>1. i \in Stop
    BY <1>1, <1>3
  <2>. QED  BY <2>1, <1>3
<1>5. \E q \in p..L : /\ \A i \in p..q - 1 : text[i + 1] \in C
                      /\ (q = L \/ text[q + 1] \notin C)
  BY <1>3, <1>4
<1>. QED  BY <1>5 DEF ScanWhile

\* skip_whitespace moves forward, and not past the end of the text unless
\* it starts there.
LEMMA SkipBound ==
  ASSUME text \in Seq(Chars), NEW p \in 0..Len(text) + 1
  PROVE  /\ skip_whitespace(p) \in p..Len(text) + 1
         /\ p <= Len(text) => skip_whitespace(p) <= Len(text)
<1>1. CASE p >= Len(text)
  BY <1>1 DEF skip_whitespace
<1>2. CASE p < Len(text)
  BY <1>2, ScanWhileBound DEF skip_whitespace
<1>. QED  BY <1>1, <1>2


(***************************************************************************)
(* StrFrom's loop as a function of the position: StrStep(g, q) is what    *)
(* the loop does at q given what it does from q + 1 and q + 2 on (g), so  *)
(* StrFrom(p) is s[p] for the s with s = [q \in Nat |-> StrStep(s, q)].   *)
(***************************************************************************)
StrStep(g, q) ==
    IF q >= Len(text) THEN Read(<<>>, q)
    ELSE IF text[q + 1] = Quote THEN Read(<<>>, q + 1)
    ELSE IF text[q + 1] = Bslash /\ q + 1 < Len(text)
         THEN [g[q + 2] EXCEPT !.val = <<Unescape(text[q + 2])>> \o @]
         ELSE [g[q + 1] EXCEPT !.val = <<text[q + 1]>> \o @]
StrLoop(g) == [q \in Nat |-> StrStep(g, q)]

\* g agrees with StrStep from q0 on.
LoopFrom(g, q0) ==
    /\ g = [q \in Nat |-> g[q]]
    /\ \A q \in Nat : q >= q0 => g[q] = StrStep(g, q)

\* The loop's position from q: at least q, and not past the end of the
\* text unless it starts there.
PosBound(g, q) ==
    /\ "pos" \in DOMAIN g[q]
    /\ g[q].pos \in q..(IF q <= Len(text) THEN Len(text) ELSE q)

\* StrStep at q looks at g only at q + 1 and q + 2.
LEMMA StrStepLocal ==
  ASSUME NEW g, NEW h, NEW q \in Nat, h[q + 1] = g[q + 1], h[q + 2] = g[q + 2]
  PROVE  StrStep(h, q) = StrStep(g, q)
BY DEF StrStep

\* The loop of parse_string is well defined: there is a function that
\* satisfies StrFrom's defining equation at every position.
LEMMA StrLoopExists ==
  ASSUME text \in Seq(Chars)
  PROVE  \E g : g = StrLoop(g)
<1> DEFINE L == Len(text)
<1>0. L \in Nat
  OBVIOUS
<1>1. \A k \in 0..L : \E g : LoopFrom(g, L - k)
  <2> DEFINE Bad == {k \in 0..L : ~\E g : LoopFrom(g, L - k)}
  <2> SUFFICES ASSUME Bad # {} PROVE FALSE
    BY DEF Bad
  <2>0. Bad \in SUBSET Nat
    BY <1>0 DEF Bad
  <2>1. PICK k \in Bad : \A j \in Bad : k <= j
    BY <2>0, LeastNat
  <2>2. k \in 0..L /\ ~\E g : LoopFrom(g, L - k)
    BY <2>1 DEF Bad
  <2>3. CASE k = 0
    <3>1. PICK g0 : g0 = [q \in Nat |-> Read(<<>>, q)]
      OBVIOUS
    <3>2. \A q \in Nat : q >= L => g0[q] = StrStep(g0, q)
      BY <3>1 DEF StrStep
    <3>3. LoopFrom(g0, L - 0)
      BY <3>1, <3>2, <1>0 DEF LoopFrom
    <3>. QED  BY <3>3, <2>2, <2>3
  <2>4. CASE k # 0
    <3>1. k - 1 \in 0..L
      BY <2>2, <2>4
    <3>2. k - 1 \notin Bad
      <4>1. ~(k <= k - 1)
        BY <2>2
      <4>. QED  BY <4>1, <2>1, Zenon
    <3>3. PICK g : LoopFrom(g, L - (k - 1))
      BY <3>1, <3>2 DEF Bad
    <3> DEFINE q0 == L - k
    <3>4. q0 \in Nat /\ q0 < L
      BY <2>2, <2>4
    <3>5. PICK h : h = [q \in Nat |-> IF q = q0 THEN StrStep(g, q0) ELSE g[q]]
      OBVIOUS
    <3>6. ASSUME NEW q \in Nat, q >= q0 PROVE StrStep(h, q) = StrStep(g, q)
      <4>0. q + 1 # q0 /\ q + 2 # q0
        BY <3>6, <3>4
      <4>1. h[q + 1] = g[q + 1] /\ h[q + 2] = g[q + 2]
        BY <4>0, <3>5
      <4>. QED  BY <4>1, StrStepLocal
    <3>7. ASSUME NEW q \in Nat, q >= q0 PROVE h[q] = StrStep(h, q)
      <4>1. CASE q = q0
        BY <4>1, <3>5, <3>6
      <4>2. CASE q # q0
        <5>1. h[q] = g[q] /\ q >= L - (k - 1)
          BY <4>2, <3>5, <3>4, <3>7
        <5>2. g[q] = StrStep(g, q)
          BY <5>1, <3>3 DEF LoopFrom
        <5>. QED  BY <5>1, <5>2, <3>6
      <4>. QED  BY <4>1, <4>2
    <3>8. LoopFrom(h, L - k)
      BY <3>5, <3>7 DEF LoopFrom
    <3>. QED  BY <3>8, <2>2
  <2>. QED  BY <2>3, <2>4
<1>2. PICK g : LoopFrom(g, L - L)
  <2>1. L \in 0..L
    BY <1>0
  <2>. QED  BY <2>1, <1>1, Zenon
<1>3. g = StrLoop(g)
  <2>1. \A q \in Nat : g[q] = StrStep(g, q)
    BY <1>0, <1>2 DEF LoopFrom
  <2>. QED  BY <2>1, <1>2 DEF LoopFrom, StrLoop
<1>. QED  BY <1>3

\* Whatever parse_string reads from q, it stops at or after q, and inside
\* the text unless it started past it.
LEMMA StrLoopBound ==
  ASSUME text \in Seq(Chars), NEW g, g = StrLoop(g)
  PROVE  \A q \in Nat : PosBound(g, q)
<1> DEFINE L == Len(text)
<1>0. L \in Nat
  OBVIOUS
<1>1. \A q \in Nat : g[q] = StrStep(g, q)
  BY DEF StrLoop
<1>2. ASSUME NEW q \in Nat, q >= L PROVE PosBound(g, q)
  <2>1. g[q] = Read(<<>>, q)
    BY <1>1, <1>2 DEF StrStep
  <2>. QED  BY <2>1, <1>2 DEF PosBound, Read
<1>3. \A q \in 0..L : PosBound(g, q)
  <2> DEFINE Bad == {q \in 0..L : ~PosBound(g, q)}
             Dist == {L - q : q \in Bad}
  <2> SUFFICES ASSUME Bad # {} PROVE FALSE
    BY DEF Bad
  <2>0. Dist \in SUBSET Nat /\ Dist # {}
    BY <1>0 DEF Bad, Dist
  <2>1. PICK d \in Dist : \A e \in Dist : d <= e
    BY <2>0, LeastNat
  <2>2. PICK q \in Bad : d = L - q
    BY <2>1 DEF Dist
  <2>3. q \in 0..L /\ ~PosBound(g, q)
    BY <2>2 DEF Bad
  <2>4. q < L
    BY <2>3, <1>2
  \* Every later position inside the text is bounded.
  <2>5. ASSUME NEW r \in 0..L, r > q PROVE PosBound(g, r)
    <3>1. SUFFICES ASSUME r \in Bad PROVE FALSE
      BY <2>5 DEF Bad
    <3>2. L - r \in Dist
      BY <3>1 DEF Dist
    <3>3. d <= L - r
      BY <3>2, <2>1
    <3>. QED  BY <3>3, <2>2, <2>3, <2>5
  <2>6. g[q] = StrStep(g, q)
    BY <1>1, <2>3
  <2>7. CASE text[q + 1] = Quote
    <3>1. g[q] = Read(<<>>, q + 1)
      BY <2>6, <2>7, <2>4 DEF StrStep
    <3>. QED  BY <3>1, <2>3, <2>4 DEF PosBound, Read
  <2>8. CASE text[q + 1] # Quote /\ text[q + 1] = Bslash /\ q + 1 < L
    <3>1. g[q] = [g[q + 2] EXCEPT !.val = <<Unescape(text[q + 2])>> \o @]
      BY <2>6, <2>8, <2>4 DEF StrStep
    <3>2. PosBound(g, q + 2)
      BY <2>5, <2>8, <2>3
    <3>3. "pos" \in DOMAIN g[q] /\ g[q].pos = g[q + 2].pos
      BY <3>1, <3>2 DEF PosBound
    <3>4. g[q].pos \in q..L
      BY <3>2, <3>3, <2>8, <2>3 DEF PosBound
    <3>. QED  BY <3>3, <3>4, <2>3 DEF PosBound
  <2>9. CASE text[q + 1] # Quote /\ ~(text[q + 1] = Bslash /\ q + 1 < L)
    <3>1. g[q] = [g[q + 1] EXCEPT !.val = <<text[q + 1]>> \o @]
      BY <2>6, <2>9, <2>4 DEF StrStep
    <3>2. PosBound(g, q + 1)
      BY <2>5, <2>4, <2>3
    <3>3. "pos" \in DOMAIN g[q] /\ g[q].pos = g[q + 1].pos
      BY <3>1, <3>2 DEF PosBound
    <3>4. g[q].pos \in q..L
      BY <3>2, <3>3, <2>4 DEF PosBound
    <3>. QED  BY <3>3, <3>4, <2>3 DEF PosBound
  <2>. QED  BY <2>7, <2>8, <2>9
<1>. QED  BY <1>2, <1>3

\* parse_string from p: the position it leaves is in p..Len(text) when p
\* is inside the text, and Len(text) + 1 (one past the end) when it starts
\* there, the overshoot of the ++pos after the loop.
LEMMA StrFromBound ==
  ASSUME text \in Seq(Chars), NEW p \in 0..Len(text) + 1
  PROVE  /\ "pos" \in DOMAIN StrFrom(p)
         /\ StrFrom(p).pos \in p..Len(text) + 1
         /\ p <= Len(text) => StrFrom(p).pos <= Len(text)
<1>1. StrFrom(p) = (CHOOSE c : c = StrLoop(c))[p]
  BY DEF StrFrom, StrLoop, StrStep
<1>2. PICK g : g = StrLoop(g)
  BY StrLoopExists
<1>3. (CHOOSE c : c = StrLoop(c)) = StrLoop(CHOOSE c : c = StrLoop(c))
  BY <1>2
<1>4. PICK G : G = CHOOSE c : c = StrLoop(c)
  OBVIOUS
<1>5. \A q \in Nat : PosBound(G, q)
  BY <1>3, <1>4, StrLoopBound
<1>6. PosBound(G, p)
  BY <1>5
<1>. QED  BY <1>1, <1>4, <1>6 DEF PosBound

\* parse_number at a position inside the text: it stops inside the text
\* (or throws where it started).
LEMMA NumberBound ==
  ASSUME text \in Seq(Chars), NEW p \in Nat, p < Len(text)
  PROVE  parse_number(p).pos \in 0..Len(text)
<1> DEFINE L == Len(text)
           s == IF Is(p, "-") THEN p + 1 ELSE p
           e == IF s >= L THEN s ELSE ScanWhile(s, {"d", "-"})
<1>1. s \in Nat /\ s <= L
  BY DEF Is
<1>2. e \in 0..L
  <2>1. CASE s >= L
    BY <1>1, <2>1
  <2>2. CASE s < L
    BY <1>1, <2>2, ScanWhileBound
  <2>. QED  BY <2>1, <2>2
<1>. QED  BY <1>2 DEF parse_number, Read, Throw

\* The scalar parse_value reads, when it does not throw, ends at most one
\* past the end of the text (a string key or value opened at the end).
LEMMA ScalarBound ==
  ASSUME text \in Seq(Chars), NEW p \in 0..Len(text) + 1
  PROVE  Scalar(p).pos \in 0..Len(text) + 1
<1> DEFINE L == Len(text)
<1>0. L \in Nat
  OBVIOUS
<1>1. CASE p >= L
  <2>0. /\ ~Is(p, Quote) /\ ~Is(p, "true") /\ ~Is(p, "false")
        /\ ~Is(p, "null") /\ ~Is(p, "d") /\ ~Is(p, "-")
    BY <1>1 DEF Is
  <2>1. Scalar(p) = Read(Null, p)
    BY <1>1, <2>0, Zenon DEF Scalar
  <2>. QED  BY <2>1, <1>0 DEF Read
<1>2. CASE p < L /\ text[p + 1] = Quote
  <2>0. /\ ~(p >= L) /\ Is(p, Quote) /\ ~Is(p, "true") /\ ~Is(p, "false")
        /\ ~Is(p, "null") /\ ~Is(p, "d") /\ ~Is(p, "-")
    BY <1>2 DEF Is, Quote
  <2>1. Scalar(p) = [parse_string(p) EXCEPT !.val = Str(@)]
    BY <2>0, Zenon DEF Scalar
  <2>2. "pos" \in DOMAIN StrFrom(p + 1) /\ StrFrom(p + 1).pos \in 0..L + 1
    BY <1>2, StrFromBound
  <2>. QED  BY <2>1, <2>2 DEF parse_string
<1>3. CASE p < L /\ text[p + 1] = "true"
  <2>0. /\ ~(p >= L) /\ ~Is(p, Quote) /\ Is(p, "true") /\ ~Is(p, "false")
        /\ ~Is(p, "null") /\ ~Is(p, "d") /\ ~Is(p, "-")
    BY <1>3 DEF Is, Quote
  <2>1. Scalar(p) = Read(Bool(TRUE), p + 1)
    BY <2>0, Zenon DEF Scalar
  <2>. QED  BY <2>1, <1>3 DEF Read
<1>4. CASE p < L /\ text[p + 1] = "false"
  <2>0. /\ ~(p >= L) /\ ~Is(p, Quote) /\ ~Is(p, "true") /\ Is(p, "false")
        /\ ~Is(p, "null") /\ ~Is(p, "d") /\ ~Is(p, "-")
    BY <1>4 DEF Is, Quote
  <2>1. Scalar(p) = Read(Bool(FALSE), p + 1)
    BY <2>0, Zenon DEF Scalar
  <2>. QED  BY <2>1, <1>4 DEF Read
<1>5. CASE p < L /\ text[p + 1] = "null"
  <2>0. /\ ~(p >= L) /\ ~Is(p, Quote) /\ ~Is(p, "true") /\ ~Is(p, "false")
        /\ Is(p, "null") /\ ~Is(p, "d") /\ ~Is(p, "-")
    BY <1>5 DEF Is, Quote
  <2>1. Scalar(p) = Read(Null, p + 1)
    BY <2>0, Zenon DEF Scalar
  <2>. QED  BY <2>1, <1>5 DEF Read
<1>6. CASE p < L /\ text[p + 1] \in {"d", "-"}
  <2>0. /\ ~(p >= L) /\ ~Is(p, Quote) /\ ~Is(p, "true") /\ ~Is(p, "false")
        /\ ~Is(p, "null") /\ (Is(p, "d") \/ Is(p, "-"))
    BY <1>6 DEF Is, Quote
  <2>1. Scalar(p) = parse_number(p)
    BY <2>0, Zenon DEF Scalar
  <2>. QED  BY <2>1, <1>6, NumberBound
<1>7. CASE p < L /\ text[p + 1] \notin {Quote, "true", "false", "null", "d", "-"}
  <2>0. /\ ~(p >= L) /\ ~Is(p, Quote) /\ ~Is(p, "true") /\ ~Is(p, "false")
        /\ ~Is(p, "null") /\ ~Is(p, "d") /\ ~Is(p, "-")
    BY <1>7 DEF Is
  <2>1. Scalar(p) = Read(Null, p)
    BY <2>0, Zenon DEF Scalar
  <2>. QED  BY <2>1, <1>7 DEF Read
<1>. QED  BY <1>1, <1>2, <1>3, <1>4, <1>5, <1>6, <1>7

\* The loop condition of parse_array and parse_object: the position it
\* leaves is at most one past the end, and the loop goes on only from a
\* position inside the text.
LEMMA AfterElemBound ==
  ASSUME text \in Seq(Chars), NEW p \in 0..Len(text) + 1, NEW close \in {"]", RBrace}
  PROVE  /\ AfterElem(p, close).pos \in 0..Len(text) + 1
         /\ AfterElem(p, close).more \in BOOLEAN
         /\ AfterElem(p, close).more => AfterElem(p, close).pos < Len(text)
<1> DEFINE L == Len(text)
<1>0. L \in Nat
  OBVIOUS
<1>1. CASE Is(p, Comma)
  <2>0. ~Is(p, close)
    BY <1>1, CharsDistinct, Zenon DEF Is
  <2>1. AfterElem(p, close) = [pos |-> p + 1, more |-> p + 1 < L]
    BY <1>1, <2>0, Zenon DEF AfterElem
  <2>2. AfterElem(p, close).pos = p + 1 /\ AfterElem(p, close).more = (p + 1 < L)
    BY <2>1
  <2>3. AfterElem(p, close).pos \in 0..L + 1
    BY <2>2, <1>1, <1>0 DEF Is
  <2>4. AfterElem(p, close).more \in BOOLEAN
    BY <2>2, <1>1, <1>0 DEF Is
  <2>5. AfterElem(p, close).more => AfterElem(p, close).pos < L
    BY <2>2, <1>1, <1>0 DEF Is
  <2>. QED  BY <2>3, <2>4, <2>5
<1>2. CASE ~Is(p, Comma) /\ Is(p, close)
  <2>1. AfterElem(p, close) = [pos |-> p + 1, more |-> FALSE]
    BY <1>2, Zenon DEF AfterElem
  <2>2. AfterElem(p, close).pos = p + 1 /\ AfterElem(p, close).more = FALSE
    BY <2>1
  <2>3. AfterElem(p, close).pos \in 0..L + 1
    BY <2>2, <1>2, <1>0 DEF Is
  <2>4. AfterElem(p, close).more \in BOOLEAN
    BY <2>2, <1>2, <1>0 DEF Is
  <2>5. AfterElem(p, close).more => AfterElem(p, close).pos < L
    BY <2>2, <1>2, <1>0 DEF Is
  <2>. QED  BY <2>3, <2>4, <2>5
<1>3. CASE ~Is(p, Comma) /\ ~Is(p, close)
  <2>1. AfterElem(p, close) = [pos |-> p, more |-> p < L]
    BY <1>3, Zenon DEF AfterElem
  <2>2. AfterElem(p, close).pos = p /\ AfterElem(p, close).more = (p < L)
    BY <2>1
  <2>3. AfterElem(p, close).pos \in 0..L + 1
    BY <2>2, <1>0
  <2>4. AfterElem(p, close).more \in BOOLEAN
    BY <2>2, <1>0
  <2>5. AfterElem(p, close).more => AfterElem(p, close).pos < L
    BY <2>2, <1>0
  <2>. QED  BY <2>3, <2>4, <2>5
<1>. QED  BY <1>1, <1>2, <1>3

(***************************************************************************)
(* The frames of the explicit call stack.  A frame is pushed at the top  *)
(* (the front of the sequence) and popped with Tail; every frame records *)
(* whether it is a parse_array or a parse_object call.                    *)
(***************************************************************************)
Frame(x) == "k" \in DOMAIN x /\ x.k \in {"arr", "obj"}
FramesOK(st) == st \in Seq(Range(st)) /\ \A i \in 1..Len(st) : Frame(st[i])

\* A sequence is a sequence over its own range.
LEMMA SeqOverRange ==
  ASSUME NEW S, NEW s \in Seq(S)
  PROVE  s \in Seq(Range(s))
<1>1. DOMAIN s = 1..Len(s) /\ Len(s) \in Nat
  OBVIOUS
<1>2. \A i \in 1..Len(s) : s[i] \in Range(s)
  BY <1>1 DEF Range
<1>3. s \in [1..Len(s) -> Range(s)]
  BY <1>1, <1>2
<1>. QED  BY <1>1, <1>3

\* Pushing a frame on a stack of frames gives a stack of frames.
LEMMA PushFrame ==
  ASSUME NEW st, FramesOK(st), NEW x, Frame(x)
  PROVE  FramesOK(<<x>> \o st)
<1>1. st \in Seq(Range(st))
  BY DEF FramesOK
<1>2. <<x>> \o st \in Seq(Range(st) \cup {x})
  BY <1>1
<1>3. <<x>> \o st \in Seq(Range(<<x>> \o st))
  BY <1>2, SeqOverRange
<1>4. \A i \in 1..Len(<<x>> \o st) : Frame((<<x>> \o st)[i])
  BY <1>1 DEF FramesOK
<1>. QED  BY <1>3, <1>4 DEF FramesOK

\* Popping the top frame leaves a stack of frames, and the top is a frame.
LEMMA PopFrame ==
  ASSUME NEW st, FramesOK(st), st # <<>>
  PROVE  FramesOK(Tail(st)) /\ Frame(Head(st))
<1>1. st \in Seq(Range(st))
  BY DEF FramesOK
<1>2. Tail(st) \in Seq(Range(st))
  BY <1>1
<1>3. Tail(st) \in Seq(Range(Tail(st)))
  BY <1>2, SeqOverRange
<1>4. \A i \in 1..Len(Tail(st)) : Frame(Tail(st)[i])
  BY <1>1 DEF FramesOK
<1>5. Frame(Head(st))
  BY <1>1 DEF FramesOK
<1>. QED  BY <1>3, <1>4, <1>5 DEF FramesOK

(***************************************************************************)
(* The inductive invariant: TypeOK, with what a step needs to keep it: *)
(* the text is over the alphabet (the scanning lemmas need it) and the    *)
(* stack is a sequence of frames (push, pop and the update of the top     *)
(* frame keep each frame's kind).                                         *)
(***************************************************************************)
JsonInv ==
    /\ text \in Seq(Chars)
    /\ TypeOK
    /\ FramesOK(stack)

\* parse_object's loop body from a position inside the text: the position
\* it hands to parse_value is at most one past the end, and the frame it
\* pushes is an object frame.
LEMMA ObjectKeyStep ==
  ASSUME text \in Seq(Chars), NEW p \in 0..Len(text), NEW fields, NEW rest,
         FramesOK(rest), ObjectKey(p, fields, rest)
  PROVE  pos' \in 0..Len(text) + 1 /\ mode' = "value" /\ FramesOK(stack')
<1> DEFINE L == Len(text)
           w == skip_whitespace(p)
           k == parse_string(w)
           q == skip_whitespace(k.pos)
<1>1. w \in 0..L
  BY SkipBound
<1>2. k.pos \in 0..L + 1
  BY <1>1, StrFromBound DEF parse_string
<1>3. q \in 0..L + 1
  BY <1>2, SkipBound
<1>4. pos' = IF Is(q, ":") THEN q + 1 ELSE q
  BY DEF ObjectKey
<1>5. pos' \in 0..L + 1
  BY <1>3, <1>4 DEF Is
<1>6. stack' = <<[k |-> "obj", fields |-> fields, key |-> k.val]>> \o rest
  BY DEF ObjectKey
<1>7. Frame([k |-> "obj", fields |-> fields, key |-> k.val])
  BY DEF Frame
<1>8. FramesOK(stack')
  BY <1>6, <1>7, PushFrame
<1>. QED  BY <1>5, <1>8 DEF ObjectKey

\* The texts parse() is given are over the alphabet, and parse() starts at
\* position 0 with an empty stack.
LEMMA InitJsonInv == Init => JsonInv
<1> SUFFICES ASSUME Init PROVE JsonInv
  OBVIOUS
<1>1. text \in Seq(Chars)
  BY InputsAssumption DEF Init
<1>2. stack = <<>> /\ pos = 0 /\ mode = "value"
  BY DEF Init
<1>3. FramesOK(stack)
  BY <1>2 DEF FramesOK, Range
<1>. QED  BY <1>1, <1>2, <1>3 DEF JsonInv, TypeOK, FramesOK

\* parse_value on a scalar returns at most one past the end, or throws
\* where it was.
LEMMA ParseScalarStep == JsonInv /\ ParseScalar => JsonInv'
<1> SUFFICES ASSUME JsonInv, ParseScalar PROVE JsonInv'
  OBVIOUS
<1> DEFINE p == skip_whitespace(pos)
           r == Scalar(p)
<1>1. text \in Seq(Chars) /\ pos \in 0..Len(text) + 1 /\ FramesOK(stack)
  BY DEF JsonInv, TypeOK
<1>2. p \in 0..Len(text) + 1
  BY <1>1, SkipBound
<1>3. r.pos \in 0..Len(text) + 1
  BY <1>1, <1>2, ScalarBound
<1>4. text' = text /\ stack' = stack
  BY DEF ParseScalar
<1>5. CASE ~r.ok
  <2>1. pos' = pos /\ mode' = "thrown"
    BY <1>5 DEF ParseScalar
  <2>. QED  BY <1>1, <1>4, <2>1 DEF JsonInv, TypeOK, FramesOK
<1>6. CASE r.ok
  <2>1. pos' = r.pos /\ mode' = "ret"
    BY <1>6 DEF ParseScalar, Return
  <2>. QED  BY <1>1, <1>3, <1>4, <2>1 DEF JsonInv, TypeOK, FramesOK
<1>. QED  BY <1>5, <1>6

\* parse_array's opening: the element position it hands to parse_value is
\* inside the text, and an empty array returns at most one past the end.
LEMMA OpenArrayStep == JsonInv /\ OpenArray => JsonInv'
<1> SUFFICES ASSUME JsonInv, OpenArray PROVE JsonInv'
  OBVIOUS
<1> DEFINE L == Len(text)
           p == skip_whitespace(pos)
           q == skip_whitespace(p + 1)
<1>1. text \in Seq(Chars) /\ pos \in 0..L + 1 /\ FramesOK(stack)
  BY DEF JsonInv, TypeOK
<1>2. p \in 0..L + 1 /\ Is(p, "[")
  BY <1>1, SkipBound DEF OpenArray
<1>3. q \in 0..L
  BY <1>1, <1>2, SkipBound DEF Is
<1>4. text' = text
  BY DEF OpenArray
<1>5. CASE ~Is(q, "]") /\ q < L
  <2>1. stack' = <<[k |-> "arr", open |-> p, items |-> <<>>]>> \o stack
        /\ pos' = q /\ mode' = mode
    BY <1>5 DEF OpenArray
  <2>2. FramesOK(stack')
    BY <1>1, <2>1, PushFrame DEF Frame
  <2>. QED  BY <1>1, <1>3, <1>4, <2>1, <2>2 DEF JsonInv, TypeOK, FramesOK
<1>6. CASE ~(~Is(q, "]") /\ q < L)
  <2>1. stack' = stack /\ mode' = "ret" /\ pos' = IF Is(q, "]") THEN q + 1 ELSE q
    BY <1>6 DEF OpenArray, Return
  <2>. QED  BY <1>1, <1>3, <1>4, <2>1 DEF JsonInv, TypeOK, FramesOK, Is
<1>. QED  BY <1>5, <1>6

\* One turn of parse_array's loop: appending to the top frame keeps it an
\* array frame, and the position left is at most one past the end.
LEMMA ArrayElemStep == JsonInv /\ ArrayElem => JsonInv'
<1> SUFFICES ASSUME JsonInv, ArrayElem PROVE JsonInv'
  OBVIOUS
<1> DEFINE L == Len(text)
           f == Head(stack)
           a == AfterElem(skip_whitespace(pos), "]")
<1>1. text \in Seq(Chars) /\ pos \in 0..L + 1 /\ FramesOK(stack) /\ stack # <<>>
  BY DEF JsonInv, TypeOK, ArrayElem
<1>2. a.pos \in 0..L + 1 /\ (a.more => a.pos < L)
  BY <1>1, SkipBound, AfterElemBound
<1>3. FramesOK(Tail(stack)) /\ Frame(f)
  BY <1>1, PopFrame
<1>4. text' = text
  BY DEF ArrayElem
<1>5. CASE a.more
  <2>1. stack' = <<[f EXCEPT !.items = Append(f.items, ret)]>> \o Tail(stack)
        /\ pos' = a.pos /\ mode' = "value"
    BY <1>5 DEF ArrayElem
  <2>2. Frame([f EXCEPT !.items = Append(f.items, ret)])
    BY <1>3 DEF Frame
  <2>3. FramesOK(stack')
    BY <1>3, <2>1, <2>2, PushFrame
  <2>. QED  BY <1>2, <1>4, <2>1, <2>3 DEF JsonInv, TypeOK, FramesOK, Frame
<1>6. CASE ~a.more
  <2>1. stack' = Tail(stack) /\ pos' = a.pos /\ mode' = "ret"
    BY <1>6 DEF ArrayElem, Return
  <2>. QED  BY <1>1, <1>2, <1>3, <1>4, <2>1 DEF JsonInv, TypeOK, FramesOK
<1>. QED  BY <1>5, <1>6

\* parse_object's opening: the key is read from inside the text, and an
\* empty object returns at most one past the end.
LEMMA OpenObjectStep == JsonInv /\ OpenObject => JsonInv'
<1> SUFFICES ASSUME JsonInv, OpenObject PROVE JsonInv'
  OBVIOUS
<1> DEFINE L == Len(text)
           p == skip_whitespace(pos)
           q == skip_whitespace(p + 1)
<1>1. text \in Seq(Chars) /\ pos \in 0..L + 1 /\ FramesOK(stack)
  BY DEF JsonInv, TypeOK
<1>2. p \in 0..L + 1 /\ Is(p, LBrace)
  BY <1>1, SkipBound DEF OpenObject
<1>3. q \in 0..L
  BY <1>1, <1>2, SkipBound DEF Is
<1>4. text' = text
  BY DEF OpenObject
<1>5. CASE ~Is(q, RBrace) /\ q < L
  <2>1. ObjectKey(q, EmptyObject, stack)
    BY <1>5 DEF OpenObject
  <2>2. pos' \in 0..L + 1 /\ mode' = "value" /\ FramesOK(stack')
    BY <1>1, <1>3, <2>1, ObjectKeyStep
  <2>. QED  BY <1>1, <1>4, <2>2 DEF JsonInv, TypeOK, FramesOK, Frame
<1>6. CASE ~(~Is(q, RBrace) /\ q < L)
  <2>1. stack' = stack /\ mode' = "ret" /\ pos' = IF Is(q, RBrace) THEN q + 1 ELSE q
    BY <1>6 DEF OpenObject, Return
  <2>. QED  BY <1>1, <1>3, <1>4, <2>1 DEF JsonInv, TypeOK, FramesOK, Is
<1>. QED  BY <1>5, <1>6

\* One turn of parse_object's loop: the next key is read only from inside
\* the text, and the position left is at most one past the end.
LEMMA ObjectFieldStep == JsonInv /\ ObjectField => JsonInv'
<1> SUFFICES ASSUME JsonInv, ObjectField PROVE JsonInv'
  OBVIOUS
<1> DEFINE L == Len(text)
           f == Head(stack)
           fields == [x \in DOMAIN f.fields \cup {f.key} |->
                         IF x = f.key THEN ret ELSE f.fields[x]]
           a == AfterElem(skip_whitespace(pos), RBrace)
<1>1. text \in Seq(Chars) /\ pos \in 0..L + 1 /\ FramesOK(stack) /\ stack # <<>>
  BY DEF JsonInv, TypeOK, ObjectField
<1>2. a.pos \in 0..L + 1 /\ (a.more => a.pos < L)
  BY <1>1, SkipBound, AfterElemBound
<1>3. FramesOK(Tail(stack))
  BY <1>1, PopFrame
<1>4. text' = text
  BY DEF ObjectField
<1>5. CASE a.more
  <2>1. ObjectKey(a.pos, fields, Tail(stack))
    BY <1>5 DEF ObjectField
  <2>2. a.pos \in 0..L
    BY <1>2, <1>5
  <2>3. pos' \in 0..L + 1 /\ mode' = "value" /\ FramesOK(stack')
    BY <1>1, <1>3, <2>1, <2>2, ObjectKeyStep
  <2>. QED  BY <1>1, <1>4, <2>3 DEF JsonInv, TypeOK, FramesOK, Frame
<1>6. CASE ~a.more
  <2>1. stack' = Tail(stack) /\ pos' = a.pos /\ mode' = "ret"
    BY <1>6 DEF ObjectField, Return
  <2>. QED  BY <1>2, <1>3, <1>4, <2>1 DEF JsonInv, TypeOK, FramesOK
<1>. QED  BY <1>5, <1>6

\* parse() returning leaves the position and the stack alone.
LEMMA FinishStep == JsonInv /\ Finish => JsonInv'
BY DEF JsonInv, TypeOK, FramesOK, Finish

\* pos is never more than one past the end of the text, for every set of
\* input texts: every read of json[pos] in parse_value, parse_array,
\* parse_object and the scanners sits behind pos < size, and the only
\* step past the end is parse_string's ++pos of a missing opening quote.
THEOREM TypeOKInvariant == Spec => []TypeOK
<1>1. JsonInv /\ [Next]_vars => JsonInv'
  <2> SUFFICES ASSUME JsonInv, [Next]_vars PROVE JsonInv'
    OBVIOUS
  <2>1. CASE ParseScalar  BY <2>1, ParseScalarStep
  <2>2. CASE OpenArray    BY <2>2, OpenArrayStep
  <2>3. CASE ArrayElem    BY <2>3, ArrayElemStep
  <2>4. CASE OpenObject   BY <2>4, OpenObjectStep
  <2>5. CASE ObjectField  BY <2>5, ObjectFieldStep
  <2>6. CASE Finish       BY <2>6, FinishStep
  <2>7. CASE UNCHANGED vars
    BY <2>7 DEF vars, JsonInv, TypeOK, FramesOK
  <2>. QED  BY <2>1, <2>2, <2>3, <2>4, <2>5, <2>6, <2>7 DEF Next
<1>2. JsonInv => TypeOK
  BY DEF JsonInv
<1>. QED  BY <1>1, <1>2, InitJsonInv, PTL DEF Spec

=============================================================================
