--------------------------- MODULE AirParserProof ---------------------------
(***************************************************************************)
(* Theorems about AirParser, for bodies of every length, all block ids and *)
(* all widths.                                                             *)
(***************************************************************************)
EXTENDS AirParser, SequenceTheorems, TLAPS

ParserInv == ParserTypeOK /\ InsideTheBody /\ DepthIsPaid

-----------------------------------------------------------------------------
(* Alignment and the stack *)

LEMMA Alignment ==
    ASSUME NEW n \in Nat
    PROVE  /\ Aligned(n) \in Nat /\ n <= Aligned(n) /\ Aligned(n) <= n + 31
           /\ \E k \in Nat : Aligned(n) = 32 * k
<1>1. (n + 31) \div 32 \in Nat /\ 32 * ((n + 31) \div 32) <= n + 31
      /\ n + 31 < 32 * ((n + 31) \div 32) + 32
    OBVIOUS
<1>2. QED
    BY <1>1 DEF Aligned

\* What ends in a body of whole words still does so when it is aligned.
LEMMA AlignedInside ==
    ASSUME NEW n \in Nat, NEW m \in Nat, m % 32 = 0, n <= m
    PROVE  Aligned(n) <= m
<1>1. PICK k \in Nat : Aligned(n) = 32 * k
    BY Alignment
<1>2. PICK j \in Nat : m = 32 * j
  <2>1. m = 32 * (m \div 32) /\ m \div 32 \in Nat
      OBVIOUS
  <2>2. QED
      BY <2>1
<1>3. QED
    BY <1>1, <1>2, Alignment

LEMMA TheCall ==
    ASSUME stack \in Seq(Calls), stack # <<>>
    PROVE  /\ Len(stack) \in Nat /\ Len(stack) > 0
           /\ Block = stack[Len(stack)] /\ Block \in Calls
BY LenProperties, ElementOfSeq, EmptySeq DEF Block, Last

LEMMA TheOthers ==
    ASSUME stack \in Seq(Calls), stack # <<>>
    PROVE  /\ Front(stack) \in Seq(Calls)
           /\ Len(Front(stack)) = Len(stack) - 1
           /\ \A i \in 1 .. Len(stack) - 1 : Front(stack)[i] = stack[i]
<1> DEFINE n == Len(stack) - 1
<1>1. n \in Int /\ n >= 0 /\ \A i \in 1 .. n : stack[i] \in Calls
    BY TheCall, ElementOfSeq
<1>2. Front(stack) = SubSeq(stack, 1, n)
    BY DEF Front
<1>3. /\ SubSeq(stack, 1, n) \in Seq(Calls)
      /\ Len(SubSeq(stack, 1, n)) = IF 1 <= n THEN n - 1 + 1 ELSE 0
      /\ \A i \in 1 .. n - 1 + 1 : SubSeq(stack, 1, n)[i] = stack[1 + i - 1]
  <2> HIDE DEF n
  <2>1. QED
      BY <1>1, SubSeqProperties
<1>4. Len(SubSeq(stack, 1, n)) = n /\ \A i \in 1 .. n : SubSeq(stack, 1, n)[i] = stack[i]
  <2> HIDE DEF n
  <2>1. QED
      BY <1>1, <1>3
<1>5. Len(Front(stack)) = n /\ \A i \in 1 .. n : Front(stack)[i] = stack[i]
  <2> HIDE DEF n
  <2>1. QED
      BY <1>2, <1>4
<1>6. QED
    BY <1>2, <1>3, <1>4, <1>5

\* A call that goes on changes nothing of where calls have begun.
LEMMA TheCallGoesOn ==
    ASSUME stack \in Seq(Calls), stack # <<>>, NEW b \in Calls, WithBlock(b),
           b.start = Block.start
    PROVE  /\ stack' \in Seq(Calls) /\ Len(stack') = Len(stack)
           /\ \A i \in 1 .. Len(stack) : stack'[i].start = stack[i].start
<1>1. stack' = Append(Front(stack), b)
    BY DEF WithBlock
<1> DEFINE f == Front(stack)
           n == Len(stack)
<1>2. /\ n \in Nat /\ n > 0 /\ Block = stack[n]
      /\ f \in Seq(Calls) /\ Len(f) = n - 1 /\ \A i \in 1 .. n - 1 : f[i] = stack[i]
    BY TheCall, TheOthers
<1>3. /\ stack' \in Seq(Calls) /\ Len(stack') = Len(f) + 1
      /\ \A i \in 1 .. Len(f) : stack'[i] = f[i]
      /\ stack'[Len(f) + 1] = b
    BY <1>1, <1>2, AppendProperties
<1>4. Len(stack') = n /\ (\A i \in 1 .. n - 1 : stack'[i] = stack[i]) /\ stack'[n] = b
  <2> HIDE DEF f, n
  <2>1. QED
      BY <1>2, <1>3
<1>5. \A i \in 1 .. n : stack'[i].start = stack[i].start
  <2> HIDE DEF n
  <2>1. \A i \in 1 .. n : i \in 1 .. n - 1 \/ i = n
      BY <1>2
  <2>2. QED
      BY <1>2, <1>4, <2>1
<1>6. QED
    BY <1>3, <1>4, <1>5

\* The depth is paid for as long as the stack does not grow.
LEMMA DepthStays ==
    ASSUME stack \in Seq(Calls), stack' \in Seq(Calls), pos \in Nat, pos' \in Nat,
           pos <= pos', Len(stack') <= Len(stack),
           \A i \in 1 .. Len(stack') : stack'[i].start = stack[i].start, DepthIsPaid
    PROVE  DepthIsPaid'
<1> SUFFICES ASSUME NEW i \in 1 .. Len(stack')
             PROVE  stack'[i].start >= 64 * i /\ stack'[i].start <= pos'
    BY LenProperties DEF DepthIsPaid
<1>1. i \in 1 .. Len(stack) /\ i \in DOMAIN stack
    BY LenProperties
<1>2. stack[i].start >= 64 * i /\ stack[i].start <= pos /\ stack[i] \in Calls
    BY <1>1, ElementOfSeq DEF DepthIsPaid
<1>3. stack[i].start \in Nat
    BY <1>2 DEF Calls
<1>4. QED
    BY <1>2, <1>3

-----------------------------------------------------------------------------
(* Steps *)

LEMMA InitParser == ParserInit => ParserInv
<1> SUFFICES ASSUME ParserInit PROVE ParserInv
    OBVIOUS
<1>1. stack = <<>> /\ pos = 0 /\ length \in Nat
    BY ParserAssumption DEF ParserInit
<1>2. ParserTypeOK
    BY <1>1, EmptySeq DEF ParserInit, ParserTypeOK
<1>3. InsideTheBody /\ DepthIsPaid
    BY <1>1 DEF InsideTheBody, DepthIsPaid
<1>4. QED
    BY <1>2, <1>3 DEF ParserInv

\* What a step must do to the position, if no call begins: it moves forward, and
\* not beyond a body of whole words.
Forward == /\ pos' \in Nat /\ pos <= pos' /\ length' = length
           /\ (length % 32 = 0 => pos' <= length)

LEMMA BodyLength == ASSUME ParserTypeOK PROVE length \in Nat /\ pos \in Nat
BY ParserAssumption DEF ParserTypeOK

LEMMA ReadsForward ==
    ASSUME ParserTypeOK, NEW n \in Nat, Reads(n), length' = length
    PROVE  Forward
BY BodyLength DEF Reads, Has, Beyond, Forward

\* What there is to be read may also be skipped up to the next word.
LEMMA AlignsForward ==
    ASSUME ParserTypeOK, NEW n \in Nat, Has(n), pos' = Aligned(pos + n), length' = length
    PROVE  Forward
<1> DEFINE m == pos + n
<1>1. length \in Nat /\ pos \in Nat /\ m \in Nat /\ pos <= m /\ m <= length
    BY BodyLength DEF Has, Beyond
<1>2. pos' = Aligned(m)
    OBVIOUS
<1>3. Aligned(m) \in Nat /\ m <= Aligned(m) /\ (length % 32 = 0 => Aligned(m) <= length)
  <2> HIDE DEF m
  <2>1. QED
      BY <1>1, Alignment, AlignedInside
<1>4. QED
    BY <1>1, <1>2, <1>3 DEF Forward

LEMMA BlockIsTyped ==
    ASSUME ParserTypeOK, stack # <<>>
    PROVE  Block \in Calls /\ Block.width \in Nat /\ Block.id \in BlockIds
           /\ Block.target \in BlockIds \cup {NoTarget} /\ Block.abbrevs \in Seq(Abbrevs)
           /\ Block.start \in Nat
<1>1. Block \in Calls
    BY TheCall DEF ParserTypeOK
<1>2. QED
    BY <1>1, ParserAssumption DEF Calls

\* A step that moves forward and begins no call keeps the invariant.
LEMMA ForwardKeeps ==
    ASSUME ParserInv, ParserTypeOK', Forward, Len(stack') <= Len(stack),
           \A i \in 1 .. Len(stack') : stack'[i].start = stack[i].start
    PROVE  ParserInv'
<1>1. InsideTheBody'
    BY DEF Forward, InsideTheBody
<1>2. DepthIsPaid'
    BY DepthStays DEF ParserInv, ParserTypeOK, Forward
<1>3. QED
    BY <1>1, <1>2 DEF ParserInv

\* ENTER_SUBBLOCK and the top level: 64 bits for one more call.
LEMMA EnteringKeeps ==
    ASSUME ParserInv, NEW w \in Nat, Enters(w)
    PROVE  ParserInv'
<1>0. ParserTypeOK /\ length \in Nat /\ pos \in Nat /\ DepthIsPaid
    BY BodyLength DEF ParserInv
<1>1. PICK id \in BlockIds, width \in Widths, i \in 1 .. 2, k \in 1 .. 3 :
          LET start == Aligned(pos + w + 8 * i + 4 * k) + 32
          IN  /\ Has(start - pos)
              /\ pos' = start
              /\ stack' = Append(stack, NewBlock(id, width, start))
    BY DEF Enters
<1> DEFINE from == pos + w + 8 * i + 4 * k
           start == Aligned(from) + 32
           b == NewBlock(id, width, start)
<1>2. from \in Nat /\ from >= pos + 12
    BY <1>0
<1>3. Aligned(from) \in Nat /\ from <= Aligned(from) /\ \E m \in Nat : Aligned(from) = 32 * m
  <2> HIDE DEF from
  <2>1. QED
      BY <1>2, Alignment
<1>4. start \in Nat /\ pos' = start /\ pos < start /\ start <= length
    BY <1>0, <1>1, <1>2, <1>3 DEF Has, Beyond
<1>5. stack' = Append(stack, b) /\ UNCHANGED <<length, blockinfo, result>>
    BY <1>1 DEF Enters
<1>6. b \in Calls /\ b.start = start
    BY <1>0, <1>4, ParserAssumption DEF NewBlock, Inherited, Calls, ParserTypeOK
<1>7. /\ stack' \in Seq(Calls) /\ Len(stack) \in Nat /\ Len(stack') = Len(stack) + 1
      /\ \A j \in 1 .. Len(stack) : stack'[j] = stack[j]
      /\ stack'[Len(stack) + 1] = b
  <2> HIDE DEF b
  <2>1. QED
      BY <1>0, <1>5, <1>6, AppendProperties, LenProperties DEF ParserTypeOK
<1>8. ParserTypeOK'
    BY <1>0, <1>4, <1>5, <1>7 DEF ParserTypeOK
<1>9. InsideTheBody'
    BY <1>4, <1>5 DEF InsideTheBody
<1>10. start >= 64 * (Len(stack) + 1)
  <2>1. pos >= 64 * Len(stack)
    <3>1. CASE stack = <<>>
        BY <1>0, <3>1
    <3>2. CASE stack # <<>>
      <4>1. Len(stack) \in DOMAIN stack /\ stack[Len(stack)].start \in Nat
          BY <1>0, <3>2, TheCall, LenProperties DEF ParserTypeOK, Calls
      <4>2. QED
          BY <1>0, <1>7, <4>1 DEF DepthIsPaid
    <3>3. QED
        BY <3>1, <3>2
  <2>2. PICK m \in Nat : Aligned(from) = 32 * m
      BY <1>3
  <2>3. 32 * m >= 64 * Len(stack) + 12
      BY <1>0, <1>2, <1>3, <1>7, <2>1, <2>2
  <2>4. QED
      BY <1>7, <2>2, <2>3
<1>11. DepthIsPaid'
  <2> SUFFICES ASSUME NEW j \in 1 .. Len(stack) + 1
               PROVE  stack'[j].start >= 64 * j /\ stack'[j].start <= pos'
      BY <1>7, LenProperties DEF DepthIsPaid
  <2>1. CASE j = Len(stack) + 1
    <3> HIDE DEF b, start
    <3>1. stack'[j].start = start
        BY <1>6, <1>7, <2>1
    <3>2. QED
        BY <1>4, <1>10, <2>1, <3>1
  <2>2. CASE j \in 1 .. Len(stack)
    <3>1. j \in DOMAIN stack /\ stack[j] \in Calls
        BY <1>0, <2>2, LenProperties, ElementOfSeq DEF ParserTypeOK
    <3>2. stack[j].start \in Nat
        BY <3>1 DEF Calls
    <3>3. QED
        BY <1>0, <1>4, <1>7, <2>2, <3>1, <3>2 DEF DepthIsPaid
  <2>3. QED
      BY <1>7, <2>1, <2>2
<1>12. QED
    BY <1>8, <1>9, <1>11 DEF ParserInv

\* A step that leaves the stack as it is.
LEMMA StackStays ==
    ASSUME ParserInv, Forward, UNCHANGED <<stack, blockinfo>>,
           result' \in {"reading", "parsed", "eof", "malformed", "panic"}
    PROVE  ParserInv'
<1>1. ParserTypeOK'
    BY DEF ParserInv, ParserTypeOK, Forward
<1>2. Len(stack') <= Len(stack)
    BY LenProperties DEF ParserInv, ParserTypeOK
<1>3. QED
    BY <1>1, <1>2, ForwardKeeps

\* A step in which the call at hand becomes b.
LEMMA CallChanges ==
    ASSUME ParserInv, stack # <<>>, NEW b \in Calls, WithBlock(b), b.start = Block.start,
           Forward, UNCHANGED <<blockinfo, result>>
    PROVE  ParserInv'
<1>1. stack \in Seq(Calls)
    BY DEF ParserInv, ParserTypeOK
<1>2. /\ stack' \in Seq(Calls) /\ Len(stack') = Len(stack)
      /\ \A i \in 1 .. Len(stack) : stack'[i].start = stack[i].start
    BY <1>1, TheCallGoesOn
<1>3. ParserTypeOK' /\ Len(stack') <= Len(stack)
    BY <1>1, <1>2, LenProperties DEF ParserInv, ParserTypeOK, Forward
<1>4. QED
    BY <1>2, <1>3, ForwardKeeps

\* Nothing is read when the parser ends.
LEMMA EndingKeeps ==
    ASSUME ParserInv, NEW how \in {"parsed", "eof", "malformed", "panic"}, Ends(how)
    PROVE  ParserInv'
<1>1. Forward
    BY BodyLength DEF ParserInv, InsideTheBody, Ends, Forward
<1>2. QED
    BY <1>1, StackStays DEF Ends

LEMMA EndsBlockKeeps ==
    ASSUME ParserInv, EndsBlock
    PROVE  ParserInv'
<1>1. ParserTypeOK /\ stack \in Seq(Calls) /\ stack # <<>> /\ Block.width \in Nat
    BY BlockIsTyped DEF ParserInv, ParserTypeOK, EndsBlock, Says
<1>2. Forward
    BY <1>1, AlignsForward DEF EndsBlock
<1>3. /\ stack' \in Seq(Calls) /\ Len(stack') = Len(stack) - 1
      /\ \A i \in 1 .. Len(stack) - 1 : stack'[i] = stack[i]
    BY <1>1, TheOthers DEF EndsBlock
<1>4. ParserTypeOK'
    BY <1>1, <1>2, <1>3 DEF ParserTypeOK, EndsBlock, Forward
<1>5. QED
    BY <1>1, <1>2, <1>3, <1>4, TheCall, ForwardKeeps

LEMMA DefinesKeeps ==
    ASSUME ParserInv, DefinesForOthers \/ DefinesItsOwn
    PROVE  ParserInv'
<1>0. /\ ParserTypeOK /\ stack # <<>>
      /\ Block \in Calls /\ Block.width \in Nat /\ Block.id \in BlockIds
      /\ Block.target \in BlockIds \cup {NoTarget} /\ Block.abbrevs \in Seq(Abbrevs)
      /\ Block.start \in Nat
    BY BlockIsTyped DEF ParserInv, DefinesForOthers, DefinesItsOwn, Says
<1>1. Forward
  <2>1. PICK n \in RecordBits : Reads(Block.width + 5 + n)
      BY DEF DefinesForOthers, DefinesItsOwn
  <2>2. Block.width + 5 + n \in Nat
      BY <1>0, ParserAssumption
  <2>3. QED
      BY <1>0, <2>1, <2>2, ReadsForward DEF DefinesForOthers, DefinesItsOwn
<1>2. CASE DefinesForOthers
  <2>1. blockinfo' \in [BlockIds -> Seq(Abbrevs)]
    <3>1. CASE Block.target = NoTarget
        BY <1>0, <1>2, <3>1 DEF DefinesForOthers, ParserTypeOK
    <3>2. CASE Block.target # NoTarget
      <4> DEFINE t == Block.target
      <4>1. t \in BlockIds /\ blockinfo[t] \in Seq(Abbrevs) /\ FromInfo(t) \in Abbrevs
          BY <1>0, <3>2 DEF ParserTypeOK, FromInfo, Abbrevs
      <4>2. blockinfo' = [blockinfo EXCEPT ![t] = Append(@, FromInfo(t))]
          BY <1>2, <3>2 DEF DefinesForOthers
      <4>3. Append(blockinfo[t], FromInfo(t)) \in Seq(Abbrevs)
        <5> HIDE DEF t
        <5>1. QED
            BY <4>1, AppendProperties
      <4>4. QED
          BY <1>0, <4>1, <4>2, <4>3 DEF ParserTypeOK
    <3>3. QED
        BY <3>1, <3>2
  <2>2. UNCHANGED <<length, stack, result>>
      BY <1>2 DEF DefinesForOthers
  <2>3. ParserTypeOK' /\ Len(stack') <= Len(stack)
      BY <1>0, <1>1, <2>1, <2>2, LenProperties DEF ParserTypeOK, Forward
  <2>4. QED
      BY <1>1, <2>2, <2>3, ForwardKeeps
<1>3. CASE DefinesItsOwn
  <2> DEFINE a == Append(Block.abbrevs, FromBlock(Block.start))
             b == [Block EXCEPT !.abbrevs = a]
  <2>1. FromBlock(Block.start) \in Abbrevs
      BY <1>0 DEF FromBlock, Abbrevs
  <2>2. a \in Seq(Abbrevs)
      BY <1>0, <2>1, AppendProperties
  <2>3. b \in Calls /\ b.start = Block.start
    <3> HIDE DEF a
    <3>1. QED
        BY <1>0, <2>2 DEF Calls
  <2>4. WithBlock(b) /\ UNCHANGED <<blockinfo, result>>
      BY <1>3 DEF DefinesItsOwn
  <2>5. QED
    <3> HIDE DEF b
    <3>1. QED
        BY <1>0, <1>1, <2>3, <2>4, CallChanges
<1>4. QED
    BY <1>2, <1>3

LEMMA RecordsKeep ==
    ASSUME ParserInv, Records
    PROVE  ParserInv'
<1>0. /\ ParserTypeOK /\ stack # <<>> /\ Block \in Calls /\ Block.width \in Nat
      /\ UNCHANGED <<length, blockinfo, result>>
    BY BlockIsTyped DEF ParserInv, Records, Says
<1>1. CASE (\E n \in RecordBits : Reads(Block.width + 12 + n)) /\ UNCHANGED stack
  <2>1. PICK n \in RecordBits : Reads(Block.width + 12 + n)
      BY <1>1
  <2>2. Block.width + 12 + n \in Nat
      BY <1>0, ParserAssumption
  <2>3. Forward
      BY <1>0, <2>1, <2>2, ReadsForward
  <2>4. QED
      BY <1>0, <1>1, <2>3, StackStays DEF ParserTypeOK
<1>2. ASSUME NEW n \in {12, 18}, Reads(Block.width + n), NEW t \in BlockIds \cup {NoTarget},
             WithBlock([Block EXCEPT !.target = t])
      PROVE  ParserInv'
  <2> DEFINE b == [Block EXCEPT !.target = t]
  <2>1. b \in Calls /\ b.start = Block.start
      BY <1>0, <1>2 DEF Calls
  <2>2. Block.width + n \in Nat
      BY <1>0, <1>2
  <2>3. Forward
      BY <1>0, <1>2, <2>2, ReadsForward
  <2>4. WithBlock(b)
      BY <1>2
  <2>5. QED
    <3> HIDE DEF b
    <3>1. QED
        BY <1>0, <2>1, <2>3, <2>4, CallChanges
<1>3. QED
    BY <1>1, <1>2 DEF Records

LEMMA AbbreviatedRecordKeeps ==
    ASSUME ParserInv, AbbreviatedRecord
    PROVE  ParserInv'
<1> DEFINE n == Block.width + 6
           blob == Aligned(pos + n)
<1>0. /\ ParserTypeOK /\ stack # <<>> /\ Block.width \in Nat /\ n \in Nat
      /\ length \in Nat /\ pos \in Nat /\ UNCHANGED <<length, stack, blockinfo, result>>
    BY BlockIsTyped, BodyLength DEF ParserInv, AbbreviatedRecord, Says
<1>1. Forward
  <2>1. CASE \E m \in RecordBits : Reads(Block.width + m)
    <3>1. PICK m \in RecordBits : Reads(Block.width + m)
        BY <2>1
    <3>2. Block.width + m \in Nat
        BY <1>0, ParserAssumption
    <3>3. QED
        BY <1>0, <3>1, <3>2, ReadsForward
  <2>2. CASE Has(n) /\ pos' = blob
    <3> HIDE DEF n
    <3>1. QED
        BY <1>0, <2>2, AlignsForward
  <2>3. CASE Has(blob + 8 - pos) /\ pos' = Aligned(blob + 8)
    <3>1. blob \in Nat /\ pos <= blob
      <4> HIDE DEF n
      <4>1. pos + n \in Nat /\ pos <= pos + n
          BY <1>0
      <4>2. Aligned(pos + n) \in Nat /\ pos + n <= Aligned(pos + n)
          BY <4>1, Alignment
      <4>3. QED
          BY <1>0, <4>1, <4>2
    <3> DEFINE m == blob + 8 - pos
    <3> HIDE DEF blob
    <3>2. m \in Nat /\ pos + m = blob + 8
        BY <1>0, <3>1
    <3>3. Has(m) /\ pos' = Aligned(pos + m)
        BY <2>3, <3>2
    <3> HIDE DEF m
    <3>4. QED
        BY <1>0, <3>2, <3>3, AlignsForward
  <2>4. \/ Has(n) /\ pos' = blob
        \/ Has(blob + 8 - pos) /\ pos' = Aligned(blob + 8)
        \/ \E m \in RecordBits : Reads(Block.width + m)
      BY DEF AbbreviatedRecord
  <2>5. QED
      BY <2>1, <2>2, <2>3, <2>4
<1>2. QED
    BY <1>0, <1>1, StackStays DEF ParserTypeOK

LEMMA StepKeepsParser == ParserInv /\ [ParserNext]_parserVars => ParserInv'
<1> SUFFICES ASSUME ParserInv, [ParserNext]_parserVars PROVE ParserInv'
    OBVIOUS
<1>1. CASE EntersTopLevel
    BY <1>1, EnteringKeeps DEF EntersTopLevel
<1>2. CASE EntersSubblock
  <2>1. Block.width \in Nat /\ Enters(Block.width)
      BY <1>2, BlockIsTyped DEF EntersSubblock, Says, ParserInv
  <2>2. QED
      BY <2>1, EnteringKeeps
<1>3. CASE EndsBlock
    BY <1>3, EndsBlockKeeps
<1>4. CASE DefinesForOthers \/ DefinesItsOwn
    BY <1>4, DefinesKeeps
<1>5. CASE Records
    BY <1>5, RecordsKeep
<1>6. CASE AbbreviatedRecord
    BY <1>6, AbbreviatedRecordKeeps
<1>7. CASE \/ Parsed \/ TruncatedTop \/ Truncated \/ Malformed \/ ReadsBeyond \/ TooMany
           \/ Overflows
  <2>1. PICK how \in {"parsed", "eof", "malformed", "panic"} : Ends(how)
      BY <1>7 DEF Parsed, TruncatedTop, Truncated, Malformed, ReadsBeyond, TooMany, Overflows
  <2>2. QED
      BY <2>1, EndingKeeps
<1>8. CASE UNCHANGED parserVars
    BY <1>8 DEF parserVars, ParserInv, ParserTypeOK, InsideTheBody, DepthIsPaid
<1>9. QED
    BY <1>1, <1>2, <1>3, <1>4, <1>5, <1>6, <1>7, <1>8 DEF ParserNext

\* Types, position and depth together are inductive.
THEOREM ParserInvariant == ParserSpec => []ParserInv
BY InitParser, StepKeepsParser, PTL DEF ParserSpec

\* Whatever a body of any length says: if it has whole words the parser never
\* reads beyond its end, and n bytes of it make at most n / 8 frames.
THEOREM ParserIsBounded == ParserSpec => []InputBoundsTheParser
<1>1. ParserInv => InputBoundsTheParser
    BY DEF ParserInv, InputBoundsTheParser
<1>2. QED
    BY <1>1, ParserInvariant, PTL

-----------------------------------------------------------------------------
(* The scope of abbreviations.  What BLOCKINFO has for an id only grows at *)
(* its end, so that what a block took from it stays the beginning.         *)

InfoGrows ==
    \A id \in BlockIds :
        /\ Len(blockinfo[id]) <= Len(blockinfo'[id])
        /\ \A k \in DOMAIN blockinfo[id] : blockinfo'[id][k] = blockinfo[id][k]

InfoIsNamed ==
    \A id \in BlockIds : \A k \in DOMAIN blockinfo[id] : blockinfo[id][k] = FromInfo(id)

CallsAreScoped == \A i \in DOMAIN stack : Scoped(stack[i], blockinfo[stack[i].id])

StartsDiffer == \A i, j \in DOMAIN stack : stack[j].start = stack[i].start => j = i

LEMMA ScopeInParts == AbbrevsAreScoped <=> CallsAreScoped /\ StartsDiffer /\ InfoIsNamed
BY DEF AbbrevsAreScoped, CallsAreScoped, StartsDiffer, InfoIsNamed

LEMMA StaysScoped ==
    ASSUME NEW b \in Calls, NEW g \in Seq(Abbrevs), NEW h \in Seq(Abbrevs), Scoped(b, g),
           Len(g) <= Len(h), \A k \in DOMAIN g : h[k] = g[k]
    PROVE  Scoped(b, h)
<1>1. PICK n \in 0 .. Len(b.abbrevs) : InheritsFirst(b, g, n)
    BY DEF Scoped
<1>2. /\ b.abbrevs \in Seq(Abbrevs)
      /\ Len(b.abbrevs) \in Nat /\ DOMAIN b.abbrevs = 1 .. Len(b.abbrevs)
    BY LenProperties DEF Calls
<1>3. Len(g) \in Nat /\ Len(h) \in Nat /\ DOMAIN g = 1 .. Len(g)
    BY LenProperties
<1>4. n <= Len(g) /\ n <= Len(h)
    BY <1>1, <1>2, <1>3 DEF InheritsFirst
<1>5. ASSUME NEW k \in DOMAIN b.abbrevs, k <= n PROVE h[k] = g[k]
  <2>1. k \in DOMAIN g
      BY <1>2, <1>3, <1>4, <1>5
  <2>2. QED
      BY <2>1
<1>6. InheritsFirst(b, h, n)
    BY <1>1, <1>4, <1>5 DEF InheritsFirst
<1>7. QED
    BY <1>1, <1>6 DEF Scoped

\* Calls are scoped alike that differ only in what they define for.
LEMMA ScopedAlike ==
    ASSUME NEW b, NEW c, NEW g, Scoped(b, g),
           c.id = b.id, c.abbrevs = b.abbrevs, c.start = b.start
    PROVE  Scoped(c, g)
BY DEF Scoped, InheritsFirst

LEMMA CallStaysScoped ==
    ASSUME ParserTypeOK, ParserTypeOK', CallsAreScoped, InfoGrows, NEW i \in DOMAIN stack
    PROVE  Scoped(stack[i], blockinfo'[stack[i].id])
<1>0. stack[i] \in Calls
    BY ElementOfSeq, LenProperties DEF ParserTypeOK
<1>1. stack[i] \in Calls /\ stack[i].id \in BlockIds
    BY <1>0 DEF Calls
<1>2. /\ blockinfo[stack[i].id] \in Seq(Abbrevs) /\ blockinfo'[stack[i].id] \in Seq(Abbrevs)
      /\ Len(blockinfo[stack[i].id]) <= Len(blockinfo'[stack[i].id])
      /\ \A k \in DOMAIN blockinfo[stack[i].id] :
            blockinfo'[stack[i].id][k] = blockinfo[stack[i].id][k]
    BY <1>1 DEF ParserTypeOK, InfoGrows
<1>3. Scoped(stack[i], blockinfo[stack[i].id])
    BY DEF CallsAreScoped
<1>4. QED
    BY <1>1, <1>2, <1>3, StaysScoped

\* No call begins, and none defines an abbreviation of its own.
LEMMA ScopeKept ==
    ASSUME ParserTypeOK, ParserTypeOK', AbbrevsAreScoped, InfoGrows, InfoIsNamed',
           Len(stack') <= Len(stack),
           \A i \in 1 .. Len(stack') :
               /\ stack'[i].id = stack[i].id /\ stack'[i].start = stack[i].start
               /\ stack'[i].abbrevs = stack[i].abbrevs
    PROVE  AbbrevsAreScoped'
<1>1. /\ DOMAIN stack = 1 .. Len(stack) /\ DOMAIN stack' = 1 .. Len(stack')
      /\ Len(stack) \in Nat /\ Len(stack') \in Nat
    BY LenProperties DEF ParserTypeOK
<1>2. DOMAIN stack' \subseteq DOMAIN stack
    BY <1>1
<1>3. StartsDiffer'
    BY <1>1, <1>2, ScopeInParts DEF StartsDiffer
<1>4. ASSUME NEW i \in DOMAIN stack' PROVE Scoped(stack'[i], blockinfo'[stack'[i].id])
  <2>1. Scoped(stack[i], blockinfo'[stack[i].id])
      BY <1>2, CallStaysScoped, ScopeInParts
  <2>2. /\ stack'[i].id = stack[i].id /\ stack'[i].start = stack[i].start
        /\ stack'[i].abbrevs = stack[i].abbrevs
      BY <1>1
  <2>3. QED
      BY <2>1, <2>2, ScopedAlike
<1>5. CallsAreScoped'
    BY <1>4 DEF CallsAreScoped
<1>6. QED
    BY <1>3, <1>5, ScopeInParts DEF AbbrevsAreScoped, CallsAreScoped, StartsDiffer, InfoIsNamed

\* Nothing is defined and no call begins.
LEMMA InfoStays ==
    ASSUME ParserTypeOK, InfoIsNamed, UNCHANGED blockinfo
    PROVE  InfoGrows /\ InfoIsNamed'
BY LenProperties DEF ParserTypeOK, InfoGrows, InfoIsNamed

LEMMA CallChangesTarget ==
    ASSUME ParserInv, ParserInv', AbbrevsAreScoped, stack # <<>>, UNCHANGED blockinfo,
           NEW t, WithBlock([Block EXCEPT !.target = t]), t \in BlockIds \cup {NoTarget}
    PROVE  AbbrevsAreScoped'
<1> DEFINE b == [Block EXCEPT !.target = t]
           n == Len(stack)
<1>1. ParserTypeOK /\ ParserTypeOK' /\ InfoIsNamed /\ InfoGrows /\ InfoIsNamed'
    BY InfoStays, ScopeInParts DEF ParserInv
<1>2. Block \in Calls /\ Block = stack[n] /\ n \in Nat /\ n > 0
    BY <1>1, TheCall DEF ParserTypeOK
<1>3. b.id = Block.id /\ b.start = Block.start /\ b.abbrevs = Block.abbrevs /\ b \in Calls
    BY <1>2 DEF Calls
<1>4. /\ Front(stack) \in Seq(Calls) /\ Len(Front(stack)) = n - 1
      /\ \A i \in 1 .. n - 1 : Front(stack)[i] = stack[i]
    BY <1>1, TheOthers DEF ParserTypeOK
<1>5. /\ Len(stack') = n /\ stack'[n] = b
      /\ \A i \in 1 .. n - 1 : stack'[i] = stack[i]
  <2>1. stack' = Append(Front(stack), b)
      BY DEF WithBlock
  <2> HIDE DEF b, n
  <2>2. QED
      BY <1>2, <1>3, <1>4, <2>1, AppendProperties
<1>6. \A i \in 1 .. n : i \in 1 .. n - 1 \/ i = n
    BY <1>2
<1>7. \A i \in 1 .. Len(stack') :
          /\ stack'[i].id = stack[i].id /\ stack'[i].start = stack[i].start
          /\ stack'[i].abbrevs = stack[i].abbrevs
  <2> HIDE DEF b
  <2>1. QED
      BY <1>2, <1>3, <1>5, <1>6
<1>8. QED
    BY <1>1, <1>2, <1>5, <1>7, ScopeKept

\* An abbreviation more for an id: what BLOCKINFO had for it is still its beginning.
LEMMA InfoAppends ==
    ASSUME ParserTypeOK, InfoIsNamed, NEW t \in BlockIds,
           blockinfo' = [blockinfo EXCEPT ![t] = Append(@, FromInfo(t))]
    PROVE  InfoGrows /\ InfoIsNamed'
<1>1. FromInfo(t) \in Abbrevs /\ blockinfo[t] \in Seq(Abbrevs)
    BY DEF FromInfo, Abbrevs, ParserTypeOK
<1>2. \A id \in BlockIds : /\ blockinfo[id] \in Seq(Abbrevs)
                           /\ Len(blockinfo[id]) \in Nat
                           /\ DOMAIN blockinfo[id] = 1 .. Len(blockinfo[id])
    BY LenProperties DEF ParserTypeOK
<1>3. \A id \in BlockIds : id # t => blockinfo'[id] = blockinfo[id]
    BY DEF ParserTypeOK
<1>4. blockinfo'[t] = Append(blockinfo[t], FromInfo(t))
    BY DEF ParserTypeOK
<1>5. /\ blockinfo'[t] \in Seq(Abbrevs)
      /\ Len(blockinfo'[t]) = Len(blockinfo[t]) + 1
      /\ \A k \in 1 .. Len(blockinfo[t]) : blockinfo'[t][k] = blockinfo[t][k]
      /\ blockinfo'[t][Len(blockinfo[t]) + 1] = FromInfo(t)
    BY <1>1, <1>4, AppendProperties
<1>6. DOMAIN blockinfo'[t] = 1 .. Len(blockinfo[t]) + 1
    BY <1>5, LenProperties
<1>7. InfoGrows
    BY <1>2, <1>3, <1>5 DEF InfoGrows
<1>8. ASSUME NEW id \in BlockIds, NEW k \in DOMAIN blockinfo'[id]
      PROVE  blockinfo'[id][k] = FromInfo(id)
  <2>1. CASE id # t
      BY <1>3, <1>8, <2>1 DEF InfoIsNamed
  <2>2. CASE id = t /\ k \in 1 .. Len(blockinfo[t])
      BY <1>2, <1>5, <2>2 DEF InfoIsNamed
  <2>3. CASE id = t /\ k = Len(blockinfo[t]) + 1
      BY <1>5, <2>3
  <2>4. Len(blockinfo[t]) \in Nat
      BY <1>2
  <2>5. QED
      BY <1>6, <1>8, <2>1, <2>2, <2>3, <2>4
<1>9. QED
    BY <1>7, <1>8 DEF InfoIsNamed

LEMMA SameCalls ==
    ASSUME ParserInv, ParserInv', AbbrevsAreScoped, InfoGrows, InfoIsNamed', UNCHANGED stack
    PROVE  AbbrevsAreScoped'
<1>1. ParserTypeOK /\ ParserTypeOK' /\ Len(stack) \in Nat
    BY LenProperties DEF ParserInv, ParserTypeOK
<1>2. QED
    BY <1>1, ScopeKept

LEMMA DefiningIsScoped ==
    ASSUME ParserInv, ParserInv', AbbrevsAreScoped, DefinesForOthers
    PROVE  AbbrevsAreScoped'
<1>1. /\ ParserTypeOK /\ InfoIsNamed /\ UNCHANGED stack /\ stack # <<>>
    BY ScopeInParts DEF ParserInv, DefinesForOthers, Says
<1>2. InfoGrows /\ InfoIsNamed'
  <2>1. CASE Block.target = NoTarget
      BY <1>1, <2>1, InfoStays DEF DefinesForOthers
  <2>2. CASE Block.target # NoTarget
    <3>1. Block.target \in BlockIds
        BY <1>1, <2>2, BlockIsTyped
    <3>2. blockinfo' = [blockinfo EXCEPT ![Block.target] = Append(@, FromInfo(Block.target))]
        BY <2>2 DEF DefinesForOthers
    <3>3. QED
        BY <1>1, <3>1, <3>2, InfoAppends
  <2>3. QED
      BY <2>1, <2>2
<1>3. QED
    BY <1>1, <1>2, SameCalls

\* An abbreviation more for the block itself, after all that it has.
LEMMA OwnIsScoped ==
    ASSUME NEW b \in Calls, NEW g \in Seq(Abbrevs), Scoped(b, g), b.id # Blockinfo
    PROVE  Scoped([b EXCEPT !.abbrevs = Append(b.abbrevs, FromBlock(b.start))], g)
<1> DEFINE a == FromBlock(b.start)
           s == Append(b.abbrevs, a)
           c == [b EXCEPT !.abbrevs = s]
           m == Len(b.abbrevs)
<1>1. b.abbrevs \in Seq(Abbrevs) /\ a \in Abbrevs
    BY DEF Calls, FromBlock, Abbrevs
<1>2. /\ s \in Seq(Abbrevs) /\ m \in Nat /\ Len(s) = m + 1
      /\ \A k \in 1 .. m : s[k] = b.abbrevs[k]
      /\ s[m + 1] = a
      /\ DOMAIN b.abbrevs = 1 .. m
    BY <1>1, AppendProperties, LenProperties
<1>3. DOMAIN s = 1 .. m + 1
    BY <1>2, LenProperties
<1>4. c.id = b.id /\ c.start = b.start /\ c.abbrevs = s
    BY DEF Calls
<1>5. PICK n \in 0 .. m : InheritsFirst(b, g, n)
    BY DEF Scoped
<1>6. n \in 0 .. m + 1 /\ \A k \in 1 .. m + 1 : k \in 1 .. m \/ (k = m + 1 /\ ~(k <= n))
    BY <1>2
<1> HIDE DEF s, c, m
<1>7. \A k \in 1 .. m + 1 : s[k] = IF k <= n THEN g[k] ELSE a
    BY <1>2, <1>5, <1>6 DEF InheritsFirst
<1>8. InheritsFirst(c, g, n)
    BY <1>3, <1>4, <1>5, <1>7 DEF InheritsFirst
<1>9. Scoped(c, g)
    BY <1>2, <1>4, <1>6, <1>8 DEF Scoped
<1>10. QED
    BY <1>9 DEF s, c

LEMMA DefiningOwnIsScoped ==
    ASSUME ParserInv, ParserInv', AbbrevsAreScoped, DefinesItsOwn
    PROVE  AbbrevsAreScoped'
<1> DEFINE n == Len(stack)
           b == [Block EXCEPT !.abbrevs = Append(Block.abbrevs, FromBlock(Block.start))]
<1>1. /\ ParserTypeOK /\ ParserTypeOK' /\ InfoIsNamed /\ stack # <<>> /\ UNCHANGED blockinfo
      /\ Block.id # Blockinfo /\ CallsAreScoped /\ StartsDiffer
    BY ScopeInParts DEF ParserInv, DefinesItsOwn, Says
<1>2. InfoGrows /\ InfoIsNamed'
    BY <1>1, InfoStays
<1>3. /\ Block \in Calls /\ Block = stack[n] /\ n \in Nat /\ n > 0
      /\ Block.id \in BlockIds
    BY <1>1, TheCall, BlockIsTyped DEF ParserTypeOK
<1>4. b.id = Block.id /\ b.start = Block.start
    BY <1>3 DEF Calls
<1>5. /\ DOMAIN stack = 1 .. n /\ blockinfo[Block.id] \in Seq(Abbrevs)
    BY <1>1, <1>3, LenProperties DEF ParserTypeOK
<1>6. Scoped(Block, blockinfo[Block.id])
    BY <1>1, <1>3, <1>5 DEF CallsAreScoped
<1>7. Scoped(b, blockinfo[b.id])
    BY <1>1, <1>3, <1>4, <1>5, <1>6, OwnIsScoped
<1>8. b \in Calls
  <2>1. FromBlock(Block.start) \in Abbrevs /\ Block.abbrevs \in Seq(Abbrevs)
      BY <1>1, BlockIsTyped DEF FromBlock, Abbrevs
  <2>2. Append(Block.abbrevs, FromBlock(Block.start)) \in Seq(Abbrevs)
      BY <2>1, AppendProperties
  <2>3. QED
      BY <1>3, <2>2 DEF Calls
<1>9. stack' = Append(Front(stack), b)
    BY DEF DefinesItsOwn, WithBlock
<1> HIDE DEF b
<1>10. /\ Front(stack) \in Seq(Calls) /\ Len(Front(stack)) = n - 1
       /\ \A i \in 1 .. n - 1 : Front(stack)[i] = stack[i]
    BY <1>1, TheOthers DEF ParserTypeOK
<1> HIDE DEF n
<1>11. /\ Len(stack') = n /\ stack'[n] = b /\ stack' \in Seq(Calls)
       /\ \A i \in 1 .. n - 1 : stack'[i] = stack[i]
    BY <1>3, <1>8, <1>9, <1>10, AppendProperties
<1>12. DOMAIN stack' = 1 .. n /\ \A i \in 1 .. n : i \in 1 .. n - 1 \/ i = n
    BY <1>3, <1>11, LenProperties
<1>13. \A i \in 1 .. n : stack'[i].start = stack[i].start
    BY <1>3, <1>4, <1>11, <1>12
<1>14. StartsDiffer'
    BY <1>1, <1>5, <1>12, <1>13 DEF StartsDiffer
<1>15. CallsAreScoped'
    BY <1>1, <1>5, <1>7, <1>11, <1>12 DEF CallsAreScoped
<1>16. QED
    BY <1>2, <1>14, <1>15 DEF AbbrevsAreScoped, CallsAreScoped, StartsDiffer, InfoIsNamed

\* A new block has what BLOCKINFO has for its id, and begins after all open ones.
LEMMA EnteringIsScoped ==
    ASSUME ParserInv, ParserInv', AbbrevsAreScoped, NEW w \in Nat, Enters(w)
    PROVE  AbbrevsAreScoped'
<1>1. /\ ParserTypeOK /\ ParserTypeOK' /\ InfoIsNamed /\ CallsAreScoped /\ StartsDiffer
      /\ UNCHANGED blockinfo /\ DepthIsPaid
    BY ScopeInParts DEF ParserInv, Enters
<1>2. InfoGrows /\ InfoIsNamed'
    BY <1>1, InfoStays
<1>3. PICK id \in BlockIds, width \in Widths : \E start \in {pos'} :
          stack' = Append(stack, NewBlock(id, width, start))
    BY DEF Enters
<1>4. PICK i \in 1 .. 2, k \in 1 .. 3 : pos' = Aligned(pos + w + 8 * i + 4 * k) + 32
    BY DEF Enters
<1> DEFINE b == NewBlock(id, width, pos')
           n == Len(stack)
           from == pos + w + 8 * i + 4 * k
<1>5. pos \in Nat /\ pos' \in Nat /\ pos < pos'
  <2>1. pos \in Nat /\ from \in Nat /\ pos <= from
      BY <1>1 DEF ParserTypeOK
  <2>2. pos' = Aligned(from) + 32
      BY <1>4
  <2> HIDE DEF from
  <2>3. Aligned(from) \in Nat /\ from <= Aligned(from)
      BY <2>1, Alignment
  <2>4. QED
      BY <2>1, <2>2, <2>3
<1>6. /\ b.id = id /\ b.start = pos' /\ b.abbrevs = blockinfo[id] /\ b \in Calls
      /\ blockinfo[id] \in Seq(Abbrevs)
    BY <1>1, <1>5, ParserAssumption DEF NewBlock, Inherited, ParserTypeOK, Calls
<1>7. stack' = Append(stack, b)
    BY <1>3
<1> HIDE DEF b
<1>8. /\ stack' \in Seq(Calls) /\ n \in Nat /\ Len(stack') = n + 1
      /\ stack'[n + 1] = b /\ \A j \in 1 .. n : stack'[j] = stack[j]
      /\ DOMAIN stack = 1 .. n
    BY <1>1, <1>6, <1>7, AppendProperties, LenProperties DEF ParserTypeOK
<1>0. \A j \in 1 .. n : stack[j] \in Calls /\ stack[j].start <= pos
    BY <1>1, <1>8, ElementOfSeq DEF ParserTypeOK, DepthIsPaid
<1> HIDE DEF n
<1>9. DOMAIN stack' = 1 .. n + 1 /\ \A j \in 1 .. n + 1 : j \in 1 .. n \/ j = n + 1
    BY <1>8, LenProperties
<1>10. \A j \in 1 .. n : stack[j].start # pos'
  <2> SUFFICES ASSUME NEW j \in 1 .. n PROVE stack[j].start # pos'
      OBVIOUS
  <2>1. stack[j] \in Calls /\ stack[j].start <= pos
      BY <1>0
  <2>2. stack[j].start \in Nat
      BY <2>1 DEF Calls
  <2>3. QED
      BY <1>5, <2>1, <2>2
<1>11. StartsDiffer'
    BY <1>1, <1>6, <1>8, <1>9, <1>10 DEF StartsDiffer
<1>12. Scoped(b, blockinfo[id])
  <2>1. Len(blockinfo[id]) \in Nat /\ DOMAIN blockinfo[id] = 1 .. Len(blockinfo[id])
      BY <1>6, LenProperties
  <2>2. InheritsFirst(b, blockinfo[id], Len(blockinfo[id]))
      BY <1>6, <2>1 DEF InheritsFirst
  <2>3. QED
      BY <1>6, <2>1, <2>2 DEF Scoped
<1>13. CallsAreScoped'
    BY <1>1, <1>6, <1>8, <1>9, <1>12 DEF CallsAreScoped
<1>14. QED
    BY <1>2, <1>11, <1>13 DEF AbbrevsAreScoped, CallsAreScoped, StartsDiffer, InfoIsNamed

LEMMA EndingBlockIsScoped ==
    ASSUME ParserInv, ParserInv', AbbrevsAreScoped, EndsBlock
    PROVE  AbbrevsAreScoped'
<1>1. /\ ParserTypeOK /\ ParserTypeOK' /\ InfoGrows /\ InfoIsNamed' /\ stack # <<>>
      /\ stack' = Front(stack) /\ stack \in Seq(Calls)
    BY InfoStays, ScopeInParts DEF ParserInv, ParserTypeOK, EndsBlock, Says
<1>2. /\ Len(stack') = Len(stack) - 1 /\ Len(stack) \in Nat /\ Len(stack) > 0
      /\ \A i \in 1 .. Len(stack) - 1 : stack'[i] = stack[i]
    BY <1>1, TheCall, TheOthers
<1>3. QED
    BY <1>1, <1>2, ScopeKept

LEMMA StepKeepsScope ==
    ParserInv /\ AbbrevsAreScoped /\ [ParserNext]_parserVars => AbbrevsAreScoped'
<1> SUFFICES ASSUME ParserInv, AbbrevsAreScoped, [ParserNext]_parserVars
             PROVE  AbbrevsAreScoped'
    OBVIOUS
<1>0. ParserInv' /\ ParserTypeOK /\ InfoIsNamed
    BY StepKeepsParser, ScopeInParts DEF ParserInv
<1>1. CASE EntersTopLevel
    BY <1>0, <1>1, EnteringIsScoped DEF EntersTopLevel
<1>2. CASE EntersSubblock
  <2>1. Block.width \in Nat /\ Enters(Block.width)
      BY <1>0, <1>2, BlockIsTyped DEF EntersSubblock, Says
  <2>2. QED
      BY <1>0, <2>1, EnteringIsScoped
<1>3. CASE EndsBlock
    BY <1>0, <1>3, EndingBlockIsScoped
<1>4. CASE DefinesForOthers
    BY <1>0, <1>4, DefiningIsScoped
<1>5. CASE DefinesItsOwn
    BY <1>0, <1>5, DefiningOwnIsScoped
<1>6. CASE Records
  <2>1. UNCHANGED blockinfo /\ stack # <<>>
      BY <1>6 DEF Records, Says
  <2>2. CASE UNCHANGED stack
      BY <1>0, <2>1, <2>2, InfoStays, SameCalls
  <2>3. ASSUME NEW t \in BlockIds \cup {NoTarget}, WithBlock([Block EXCEPT !.target = t])
        PROVE  AbbrevsAreScoped'
      BY <1>0, <2>1, <2>3, CallChangesTarget
  <2>4. QED
      BY <1>6, <2>2, <2>3 DEF Records
<1>7. CASE UNCHANGED <<stack, blockinfo>>
    BY <1>0, <1>7, InfoStays, SameCalls
<1>8. QED
    BY <1>1, <1>2, <1>3, <1>4, <1>5, <1>6, <1>7
       DEF ParserNext, AbbreviatedRecord, Parsed, TruncatedTop, Truncated, Malformed,
           ReadsBeyond, TooMany, Overflows, Ends, parserVars

\* An abbreviation id means what the writer of the input meant, for any number of
\* block ids, nested blocks and abbreviations.
THEOREM AbbreviationsAreScoped == ParserSpec => []AbbrevsAreScoped
<1>1. ParserInit => AbbrevsAreScoped
    BY DEF ParserInit, AbbrevsAreScoped
<1>2. QED
    BY <1>1, InitParser, StepKeepsParser, StepKeepsScope, PTL DEF ParserSpec
=============================================================================
