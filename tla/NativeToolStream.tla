---------------------------- MODULE NativeToolStream ----------------------------
(***************************************************************************)
(* The normaliser of NVIDIA NIM's chat stream: a model may leak its own    *)
(* tool markup into the text of a chunk, cut anywhere, and the normaliser  *)
(* turns one block of it into tool calls while ordinary text passes.       *)
(*                                                                         *)
(* Text is a sequence of symbols.  The namespace that starts all markup is *)
(* two of them, so that it may be cut; what may follow it is one: the tag  *)
(* that opens a block, the tag that closes it, an invocation that can be   *)
(* converted ("good") or one that cannot: an undeclared tool, arguments    *)
(* that do not nest, are too deep or do not match the schema ("bad").      *)
(*                                                                         *)
(* A chunk has text in either field, structured calls, or the reason of    *)
(* the end; chunks without a choice or a delta pass and are left out.      *)
(*                                                                         *)
(* Operators marked "Slip:" are plausible defective variants of the        *)
(* operator they precede; the specification does not use them.             *)
(***************************************************************************)
EXTENDS Naturals, Sequences, FiniteSets, SequencesExt

CONSTANTS
  MaxSegments,  \* pieces of markup and of text of an answer, for model checking
  MaxBlockSize  \* _MAX_NATIVE_TOOL_BLOCK_CHARS, in symbols

VARIABLES
  script,       \* what the model says, in each field
  heard,        \* what has been read of it (an observer)
  framer,       \* a framer for each field
  structured,   \* structured_tool_calls_seen
  shown,        \* text that has passed, in each field
  native,       \* calls that were generated
  finishes,     \* chunks with a reason of the end
  outcome       \* "streaming", "ended", "failed" (a protocol error) or "raised" (another)

vars == <<script, heard, framer, structured, shown, native, finishes, outcome>>

TextFields == {"content", "reasoning"}
Namespace == <<"ns1", "ns2">>
StartMark == Namespace \o <<"open">>
EndMark   == Namespace \o <<"close">>
CallMark  == Namespace \o <<"good">>

(* What a model says: markup and text in any order, or a block.            *)
Segments == {<<"a">>, <<"_">>, <<"ns1">>, Namespace, StartMark, EndMark, CallMark}
InBlock  == {<<"_">>, CallMark, Namespace \o <<"bad">>}
Loose  == {FlattenSeq(q) : q \in BoundedSeq(Segments, MaxSegments)}
Blocks == {<<"a">> \o StartMark \o FlattenSeq(q) \o EndMark \o p :
             q \in BoundedSeq(InBlock, MaxSegments), p \in {<<>>, <<"_">>, <<"a">>}}
OneBlock == StartMark \o CallMark \o EndMark
Answers == [content: Loose \cup Blocks, reasoning: {<<>>}]
           \cup [content: {<<>>, <<"a">>, OneBlock, Namespace}, reasoning: {<<"a">>, StartMark, OneBlock}]

-----------------------------------------------------------------------------
(* Finding markers.                                                        *)

Before(t, i) == SubSeq(t, 1, i - 1)
After(t, i)  == SubSeq(t, i, Len(t))
Places(m, t) == {i \in 1..(Len(t) - Len(m) + 1) : SubSeq(t, i, i + Len(m) - 1) = m}
(* The first place of a marker, or zero.                                   *)
Find(m, t) == LET P == Places(m, t) IN IF P = {} THEN 0 ELSE CHOOSE i \in P : \A j \in P : i <= j

(* The longest end of a text that may be the beginning of a marker.        *)
Partial(m, t) ==
  LET P == {n \in 1..(Len(m) - 1) : n <= Len(t) /\ IsSuffix(SubSeq(m, 1, n), t)}
  IN IF P = {} THEN 0 ELSE CHOOSE n \in P : \A k \in P : n >= k

Blank(t) == \A i \in DOMAIN t : t[i] = "_"

-----------------------------------------------------------------------------
(* _MiniMaxM3ToolFramer.  An operation gives the framer after it, the text *)
(* that passes and whether it raised a protocol error.                     *)

NewFramer == [mode |-> "text", tail |-> <<>>, parts |-> <<>>, block |-> <<>>]
Fed(f, passes, bad) == [framer |-> f, passes |-> passes, bad |-> bad]

(* Slip: the end of a fragment is not held back.                           *)
FeedBlockUnheld(f, t) ==
  LET end   == Find(EndMark, t)
      parts == f.parts \o (IF end = 0 THEN t ELSE Before(t, end))
  IN IF end = 0 THEN Fed([f EXCEPT !.parts = parts], <<>>, Len(parts) > MaxBlockSize)
     ELSE Fed([f EXCEPT !.mode = "after", !.parts = <<>>, !.block = parts], <<>>,
              Len(parts) > MaxBlockSize \/ ~Blank(After(t, end + Len(EndMark))))

(* _feed_tool_block: fragments are added up to the closing tag, and only   *)
(* blanks may follow it.                                                   *)
FeedBlock(f, t) ==
  LET all   == f.tail \o t
      end   == Find(EndMark, all)
      stop  == IF end = 0 THEN Len(all) - Partial(EndMark, all) + 1 ELSE end
      parts == f.parts \o Before(all, stop)
  IN IF end = 0
     THEN Fed([f EXCEPT !.parts = parts, !.tail = After(all, stop)], <<>>, Len(parts) > MaxBlockSize)
     ELSE Fed([f EXCEPT !.mode = "after", !.parts = <<>>, !.tail = <<>>, !.block = parts], <<>>,
              Len(parts) > MaxBlockSize \/ ~Blank(After(all, end + Len(EndMark))))

(* Slip: what follows the opening tag in its chunk is lost.                *)
FeedTextTagOnly(f, t) ==
  LET all   == f.tail \o t
      start == Find(StartMark, all)
      stop  == IF start = 0 THEN Len(all) - Partial(StartMark, all) + 1 ELSE start
      ns    == Find(Namespace, all)
  IN IF ns # 0 /\ ns # stop THEN Fed(f, <<>>, TRUE)
     ELSE Fed([f EXCEPT !.mode = IF start = 0 THEN "text" ELSE "block",
                        !.tail = IF start = 0 THEN After(all, stop) ELSE <<>>],
              Before(all, stop), FALSE)

(* feed, outside of a block: text passes, but for an end that may begin    *)
(* the opening tag; the namespace without that tag is malformed.           *)
FeedText(f, t) ==
  LET all   == f.tail \o t
      start == Find(StartMark, all)
      stop  == IF start = 0 THEN Len(all) - Partial(StartMark, all) + 1 ELSE start
      ns    == Find(Namespace, all)
  IN IF ns # 0 /\ ns # stop THEN Fed(f, <<>>, TRUE)
     ELSE IF start = 0 THEN Fed([f EXCEPT !.tail = After(all, stop)], Before(all, stop), FALSE)
     ELSE [FeedBlock([f EXCEPT !.mode = "block", !.tail = <<>>], After(all, start + Len(StartMark)))
             EXCEPT !.passes = Before(all, stop)]

Feed(f, t) ==
  CASE t = <<>>         -> Fed(f, <<>>, FALSE)
    [] f.mode = "text"  -> FeedText(f, t)
    [] f.mode = "block" -> FeedBlock(f, t)
    [] f.mode = "after" -> Fed(f, <<>>, ~Blank(t))

(* finish: what was held back passes, unless it is markup.                 *)
Finish(f, complete) ==
  LET markup == f.mode = "block" \/ (f.mode = "text" /\ Places(Namespace, f.tail) # {})
  IN Fed([f EXCEPT !.mode = "finished", !.tail = <<>>, !.parts = <<>>],
         IF f.mode = "text" /\ ~markup THEN f.tail ELSE <<>>, markup /\ complete)

-----------------------------------------------------------------------------
(* _parse_tool_block: nothing but invocations that can be converted, and   *)
(* blanks between them.                                                    *)

CallsIn(block) == Places(CallMark, block)
Convertible(block) ==
  /\ CallsIn(block) # {}
  /\ \A i \in DOMAIN block : block[i] = "_" \/ \E k \in CallsIn(block) : i \in k..(k + 2)

(* Fields with a complete block: none of them is empty when it can be      *)
(* converted, and an empty one is an error as much as one that cannot be.  *)
Complete(f) == f.block # <<>> \/ f.mode = "after"

-----------------------------------------------------------------------------
Init ==
  /\ script \in Answers
  /\ heard = [f \in TextFields |-> <<>>]
  /\ framer = [f \in TextFields |-> NewFramer]
  /\ structured = FALSE /\ native = 0 /\ finishes = 0 /\ outcome = "streaming"
  /\ shown = [f \in TextFields |-> <<>>]

Rest(f) == After(script[f], Len(heard[f]) + 1)
(* The text of a chunk: any beginning of what is left, or no text at all.  *)
Texts(f) == {<<>>} \cup (IF f = "content" THEN {SubSeq(Rest(f), 1, n) : n \in 1..Len(Rest(f))}
                         ELSE {Rest(f)})

Passes(fed)  == shown' = [f \in TextFields |-> shown[f] \o fed[f].passes]
Frames(fed)  == framer' = [f \in TextFields |-> fed[f].framer]
Hears(texts) == heard' = [f \in TextFields |-> heard[f] \o texts[f]]
Fails        == outcome' = "failed" /\ UNCHANGED <<shown, native>>

(* A chunk that does not end the answer.                                   *)
Chunk ==
  /\ outcome = "streaming" /\ finishes = 0
  /\ \E c \in Texts("content"), r \in Texts("reasoning"), calls \in BOOLEAN :
       LET texts == [content |-> c, reasoning |-> r]
           fed   == [f \in TextFields |-> Feed(framer[f], texts[f])]
       IN /\ texts # [f \in TextFields |-> <<>>] \/ (calls /\ ~structured)
          /\ Hears(texts) /\ structured' = (structured \/ calls)
          /\ IF \E f \in TextFields : fed[f].bad THEN Fails /\ UNCHANGED framer
             ELSE Frames(fed) /\ Passes(fed) /\ UNCHANGED <<native, outcome>>
  /\ UNCHANGED <<script, finishes>>

(* _finish_native_tool_framers: structured calls take precedence over a    *)
(* block, and two blocks are an error.                                     *)
Finishes(fed, passes) ==
  LET done   == [f \in TextFields |-> Finish(fed[f].framer, ~structured')]
      blocks == {f \in TextFields : Complete(fed[f].framer)}
  IN IF (\E f \in TextFields : fed[f].bad \/ done[f].bad)
        \/ (~structured' /\ (Cardinality(blocks) > 1
                             \/ \E f \in blocks : ~Convertible(fed[f].framer.block)))
     THEN Fails /\ UNCHANGED framer
     ELSE /\ Frames(done)
          /\ shown' = [f \in TextFields |-> shown[f] \o fed[f].passes \o done[f].passes]
          /\ native' = native + (IF structured' THEN 0
                                 ELSE Cardinality(UNION {CallsIn(fed[f].framer.block) : f \in blocks}))
          /\ outcome' = passes

(* The chunk with the reason of the end, with the rest of the text.        *)
LastChunk ==
  /\ outcome = "streaming" /\ finishes = 0
  /\ \E calls \in BOOLEAN :
       LET texts == [f \in TextFields |-> Rest(f)]
           fed   == [f \in TextFields |-> Feed(framer[f], texts[f])]
       IN /\ Hears(texts) /\ structured' = (structured \/ calls)
          /\ Finishes(fed, "streaming")
  /\ finishes' = 1
  /\ UNCHANGED script

(* Another chunk after it: text, even an empty one, is an error of the     *)
(* program, and another reason generates the calls again.                  *)
ChunkAfterLast ==
  /\ outcome = "streaming" /\ finishes = 1
  /\ \/ outcome' = "raised" /\ UNCHANGED <<framer, structured, shown, native, finishes>>
     \/ /\ structured' = structured /\ finishes' = 2
        /\ Finishes([f \in TextFields |-> Fed(framer[f], <<>>, FALSE)], "streaming")
  /\ UNCHANGED <<script, heard>>

(* The upstream ends, or breaks off.                                       *)
StreamEnds ==
  /\ outcome = "streaming"
  /\ IF finishes > 0 THEN outcome' = "ended" /\ UNCHANGED <<framer, structured, shown, native>>
     ELSE /\ structured' = structured
          /\ Finishes([f \in TextFields |-> Fed(framer[f], <<>>, FALSE)], "ended")
  /\ UNCHANGED <<script, heard, finishes>>

NativeNext == Chunk \/ LastChunk \/ ChunkAfterLast \/ StreamEnds

NativeSpec == Init /\ [][NativeNext]_vars

-----------------------------------------------------------------------------
(* Type invariant.                                                         *)
NativeTypeOK ==
  /\ \A f \in TextFields : framer[f].mode \in {"text", "block", "after", "finished"}
  /\ structured \in BOOLEAN /\ native \in 0..(4 * MaxSegments) /\ finishes \in 0..2
  /\ outcome \in {"streaming", "ended", "failed", "raised"}

(* What a text is as a whole, however it is cut.                           *)
Whole(t) ==
  LET ns  == Find(Namespace, t)
      in  == After(t, ns + Len(StartMark))
      end == Find(EndMark, in)
      size == IF end = 0 THEN Len(in) - Partial(EndMark, in) ELSE end - 1
      kind ==
        CASE ns = 0 -> "text"
          [] ns # 0 /\ ns + 1 = Len(t) -> "incomplete"
          [] ns # 0 /\ ns + 1 < Len(t) /\ t[ns + 2] # "open" -> "malformed"
          [] OTHER -> IF size > MaxBlockSize \/ (end # 0 /\ ~Blank(After(in, end + Len(EndMark))))
                      THEN "malformed" ELSE IF end = 0 THEN "incomplete" ELSE "block"
  IN [kind |-> kind, text |-> IF ns = 0 THEN t ELSE Before(t, ns),
      block |-> IF kind = "block" THEN Before(in, end) ELSE <<>>]

Faulty ==
  LET kinds  == {Whole(heard[f]).kind : f \in TextFields}
      blocks == {f \in TextFields : Whole(heard[f]).kind = "block"}
  IN \/ "malformed" \in kinds
     \/ ~structured /\ ("incomplete" \in kinds \/ Cardinality(blocks) = 2
                        \/ \E f \in blocks : ~Convertible(Whole(heard[f]).block))

(* However an answer is cut into chunks, its markup never passes as text;  *)
(* text passes as it is, but for an end that may yet become markup; a      *)
(* complete answer has the calls of its block, or the structured ones and  *)
(* no others, and fails if and only if it is faulty as a whole.            *)
NativeToolsHold ==
  /\ \A f \in TextFields :
       /\ Places(Namespace, shown[f]) = {}
       /\ IsPrefix(shown[f], Whole(heard[f]).text)
       /\ outcome = "streaming" => Len(Whole(heard[f]).text) - Len(shown[f]) < Len(StartMark)
  /\ outcome = "failed" => Faulty
  /\ outcome = "ended" =>
       /\ ~Faulty
       /\ \A f \in TextFields : shown[f] = Whole(heard[f]).text
       /\ finishes < 2 =>
            native = IF structured THEN 0
                     ELSE Cardinality(UNION {CallsIn(Whole(heard[f]).block) : f \in TextFields})
================================================================================
