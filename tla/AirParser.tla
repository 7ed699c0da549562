----------------------------- MODULE AirParser -----------------------------
(***************************************************************************)
(* The bitstream parser of src/src/shader_jit/air_parser.rs: parse and     *)
(* parse_block, which calls itself for a nested block.                     *)
(*                                                                         *)
(* The parser moves forward only, so the input need not be chosen before   *)
(* it is read: a step chooses what the bits say where they are read, and   *)
(* how many it takes.  What is kept is the position, the stack of blocks   *)
(* (the recursion), and where abbreviations come from; of their operands   *)
(* only the bits are kept that a record defined by them may take.          *)
(***************************************************************************)
EXTENDS Integers, Sequences, SequencesExt

CONSTANTS Lengths,      \* lengths of the body in bytes
          BlockIds,     \* 0 is BLOCKINFO
          Widths,       \* abbreviation widths, any number a vbr can say
          RecordBits,   \* bits the operands of a record may take
          HugeBits,     \* bits of a vbr that says more than any vector can hold
          LongVbr,      \* bits of a vbr that says more than 64 bits
          MaxAbbrevs    \* bound: abbreviations of a block or of a block id

ASSUME ParserAssumption == /\ Lengths \subseteq Nat /\ Widths \subseteq Nat
                           /\ 0 \in BlockIds /\ RecordBits \subseteq Nat /\ HugeBits \in Nat /\ LongVbr \in Nat

VARIABLES
    length,     \* bits of the body
    pos,        \* bit_pos
    stack,      \* the calls of parse_block, innermost last
    blockinfo,  \* AbbrevTable: the abbreviations BLOCKINFO gives to an id
    result      \* "reading", "parsed", "eof", "malformed", "panic"

parserVars == <<length, pos, stack, blockinfo, result>>

Blockinfo == 0
NoTarget == -1   \* current_setbid is None

\* An abbreviation is known by who defined it: BLOCKINFO for an id, or a block.
FromInfo(id) == <<"info", id>>
FromBlock(start) == <<"block", start>>

ParserInit ==
    /\ length \in {8 * n : n \in Lengths}
    /\ pos = 0
    /\ stack = <<>>
    /\ blockinfo = [i \in BlockIds |-> <<>>]
    /\ result = "reading"

-----------------------------------------------------------------------------
(* BitReader *)

\* mutant: a word is skipped where nothing need be
AlignedPast(n) == n + (32 - (n % 32))

\* align32, which does not look where the body ends
Aligned(n) == ((n + 31) \div 32) * 32

\* bits_remaining() is computed before every read of a bit: beyond the end it is
\* less than 0, and the subtraction panics or the index that follows does.
Beyond == pos > length

\* n bits can be read from here.
Has(n) == ~Beyond /\ n <= length - pos

Reads(n) == Has(n) /\ pos' = pos + n

Reading == result = "reading"
Ends(how) == result' = how /\ UNCHANGED <<length, pos, stack, blockinfo>>

-----------------------------------------------------------------------------
(* parse_block *)

Block == Last(stack)
WithBlock(b) == stack' = Append(Front(stack), b)

\* The next abbreviation id, a number of as many bits as the block was entered with;
\* 4 stands for all from 4 on, which need three.
Says(id) == Reading /\ stack # <<>> /\ id < 2 ^ (IF Block.width > 3 THEN 3 ELSE Block.width)

\* mutant: whatever BLOCKINFO has, for any id
InheritedAny(id) == FlattenSeq(SetToSeq({blockinfo[i] : i \in BlockIds}))

\* table.blockinfo.get(&block_id).cloned()
Inherited(id) == blockinfo[id]

\* The call for a block whose contents start here.
NewBlock(id, width, start) ==
    [id |-> id, width |-> width, start |-> start, abbrevs |-> Inherited(id), target |-> NoTarget]

\* What follows an abbreviation id of w bits that says ENTER_SUBBLOCK: the id of the
\* block in one or two pieces of a vbr, the width in up to three, and after the
\* alignment the length in words, which nobody looks at.
Enters(w) ==
    \E id \in BlockIds, width \in Widths, i \in 1 .. 2, k \in 1 .. 3 :
        LET words == Aligned(pos + w + 8 * i + 4 * k)
            start == words + 32
        IN  /\ width < 8 ^ k
            /\ Has(start - pos)
            /\ pos' = start
            /\ stack' = Append(stack, NewBlock(id, width, start))
            /\ UNCHANGED <<length, blockinfo, result>>

EntersSubblock == Says(1) /\ Enters(Block.width)

\* END_BLOCK: a width of 0 can say nothing else, so that such a block ends where it
\* begins, inside the body.
EndsBlock ==
    /\ Says(0) /\ Has(Block.width)
    /\ pos' = Aligned(pos + Block.width)
    /\ stack' = Front(stack)
    /\ UNCHANGED <<length, blockinfo, result>>

\* DEFINE_ABBREV in BLOCKINFO: for the block named last, for nobody when none was.
DefinesForOthers ==
    /\ Says(2) /\ Block.id = Blockinfo
    /\ \E n \in RecordBits : Reads(Block.width + 5 + n)
    /\ LET t == Block.target IN
       IF t = NoTarget THEN UNCHANGED blockinfo
       ELSE /\ Len(blockinfo[t]) < MaxAbbrevs
            /\ blockinfo' = [blockinfo EXCEPT ![t] = Append(@, FromInfo(t))]
    /\ UNCHANGED <<length, stack, result>>

\* DEFINE_ABBREV elsewhere: for the block itself, until it ends.
DefinesItsOwn ==
    /\ Says(2) /\ Block.id # Blockinfo /\ Len(Block.abbrevs) < MaxAbbrevs
    /\ \E n \in RecordBits : Reads(Block.width + 5 + n)
    /\ WithBlock([Block EXCEPT !.abbrevs = Append(@, FromBlock(Block.start))])
    /\ UNCHANGED <<length, blockinfo, result>>

\* UNABBREV_RECORD: the code, the number of operands and the operands, in pieces of
\* six bits.  BLOCKINFO's code 1 names the block to define for, by its first operand.
Records ==
    /\ Says(3)
    /\ \/ /\ \E n \in RecordBits : Reads(Block.width + 12 + n)
          /\ UNCHANGED stack
       \/ /\ Block.id = Blockinfo /\ Reads(Block.width + 12)
          /\ WithBlock([Block EXCEPT !.target = NoTarget])
       \/ /\ Block.id = Blockinfo /\ Reads(Block.width + 18)
          /\ \E i \in BlockIds : WithBlock([Block EXCEPT !.target = i])
    /\ UNCHANGED <<length, blockinfo, result>>

\* A record by an abbreviation the block has: its operands, or a blob of none or one
\* byte between two alignments.  Bytes are looked for in the body, the alignments are not.
AbbreviatedRecord ==
    LET blob == Aligned(pos + (Block.width + 6)) IN
    /\ Says(4) /\ Block.abbrevs # <<>>
    /\ \/ \E n \in RecordBits : Reads(Block.width + n)
       \/ /\ Has(Block.width + 6) /\ pos' = blob
       \/ /\ Has(blob + 8 - pos) /\ pos' = Aligned(blob + 8)
    /\ UNCHANGED <<length, stack, blockinfo, result>>

-----------------------------------------------------------------------------
(* The errors, and what is none *)

\* The bits end within something, or before the next abbreviation id.
Truncated == Reading /\ stack # <<>> /\ Block.width # 0 /\ ~Beyond /\ Ends("eof")

\* An encoding, an array or an abbreviation that does not exist.
Malformed ==
    /\ \/ Says(2) /\ Has(Block.width + 9)
       \/ Says(4) /\ Has(Block.width)
    /\ Ends("malformed")

\* A read beyond the end.
ReadsBeyond == Reading /\ Beyond /\ Ends("panic")

\* A count is believed: with_capacity and reserve panic or abort when no vector can
\* have it.
TooMany ==
    /\ \/ Says(2) \/ Says(3) \/ (Says(4) /\ Block.abbrevs # <<>>)
    /\ Has(Block.width + HugeBits)
    /\ Ends("panic")

\* A build that checks arithmetic: a shift by 64 or more, in a long number or a long
\* vbr, and the -1 of a vbr of width 0, which an abbreviation may ask for.
Overflows ==
    /\ \/ Says(0) /\ Block.width > 64 /\ Has(Block.width)
       \/ Says(3) /\ Has(Block.width + LongVbr)
       \/ Says(4) /\ Block.abbrevs # <<>> /\ Has(Block.width)
    /\ Ends("panic")

-----------------------------------------------------------------------------
(* parse *)

EntersTopLevel == Reading /\ stack = <<>> /\ Has(32) /\ Enters(2)

\* Less than a word is left, or something that is no block: the rest is not read.
Parsed ==
    /\ Reading /\ stack = <<>> /\ ~Beyond
    /\ Ends("parsed")

\* A block at the top level that the bits end in.
TruncatedTop == Reading /\ stack = <<>> /\ Has(32) /\ Ends("eof")

ParserNext ==
    \/ EntersTopLevel \/ Parsed \/ TruncatedTop
    \/ EntersSubblock \/ EndsBlock \/ DefinesForOthers \/ DefinesItsOwn
    \/ Records \/ AbbreviatedRecord
    \/ Truncated \/ Malformed \/ ReadsBeyond \/ TooMany \/ Overflows

ParserSpec == ParserInit /\ [][ParserNext]_parserVars

-----------------------------------------------------------------------------
Abbrevs == ({"info"} \X BlockIds) \cup ({"block"} \X Nat)
Calls == [id : BlockIds, width : Widths, start : Nat, abbrevs : Seq(Abbrevs),
          target : BlockIds \cup {NoTarget}]

ParserTypeOK ==
    /\ length \in {8 * n : n \in Lengths}
    /\ pos \in Nat
    /\ stack \in Seq(Calls)
    /\ blockinfo \in [BlockIds -> Seq(Abbrevs)]
    /\ result \in {"reading", "parsed", "eof", "malformed", "panic"}

\* The first n abbreviations of the block b are the first n of those given to its id,
\* the others are its own.
InheritsFirst(b, given, n) ==
    /\ n <= Len(given)
    /\ b.id = Blockinfo => n = Len(b.abbrevs)
    /\ \A k \in DOMAIN b.abbrevs :
          b.abbrevs[k] = IF k <= n THEN given[k] ELSE FromBlock(b.start)

Scoped(b, given) == \E n \in 0 .. Len(b.abbrevs) : InheritsFirst(b, given, n)

\* An abbreviation id means the same to the reader as to the writer: a block's
\* abbreviations are those that BLOCKINFO gave to its id before it began, then its
\* own, none of the block around it, of a block beside it or of another id; and what
\* BLOCKINFO gives to an id was said while that id was named (air_parser.rs:242-243
\* and 264-273).  Where a block began tells the open blocks apart.
AbbrevsAreScoped ==
    /\ \A i \in DOMAIN stack :
          /\ Scoped(stack[i], blockinfo[stack[i].id])
          /\ \A j \in DOMAIN stack : stack[j].start = stack[i].start => j = i
    /\ \A id \in BlockIds : \A k \in DOMAIN blockinfo[id] : blockinfo[id][k] = FromInfo(id)

\* A body of whole words is never read beyond its end, so whatever it says, the
\* subtraction of bits_remaining does not go below 0.
InsideTheBody == length % 32 = 0 => pos <= length

\* A call of parse_block costs 64 bits of the input, and blocks around it no less.
DepthIsPaid ==
    \A i \in DOMAIN stack : stack[i].start >= 64 * i /\ stack[i].start <= pos

\* The input bounds what the parser does with it: only the alignments of a body that
\* ends within a word lead beyond it (air_parser.rs:82 and 122-127), and n bytes of
\* it make at most n / 8 frames of the recursion (air_parser.rs:261).
InputBoundsTheParser == InsideTheBody /\ DepthIsPaid
=============================================================================
