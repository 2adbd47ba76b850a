---------------------------- MODULE ReplyDelivery ----------------------------
(***************************************************************************)
(* The delivery of a final answer: the split of its text into cards        *)
(* (adapter/feishu/delivery/reply_card_split.go and feishuapp's            *)
(* reply_card_split.go), the sending of the cards one after the other      *)
(* (feishuapp/reply_chunk_delivery.go), and the later patch of each card   *)
(* with working links (feishuapp/local_file_links.go), which for a managed *)
(* card goes through the patch loop of                                     *)
(* adapter/feishu/finalcardpatch/service.go.                               *)
(*                                                                         *)
(* A text is a sequence of blocks; a block is a table or `size' units of   *)
(* plain text, and a unit is the smallest piece a split can leave.  Cap is *)
(* what the payload limit leaves for units, a header and a footer counting *)
(* as one unit each.                                                       *)
(***************************************************************************)
EXTENDS Naturals, Sequences, SequencesExt

CONSTANTS
  Cap,          \* ReplyCardMaxPayloadBytes, in units
  MaxTables,    \* ReplyCardMaxTables
  MaxBlocks,    \* blocks of the answer
  MaxSize,      \* units of a block
  Tracked,      \* positions whose later patches are followed; they are independent
  MaxFailures   \* sends and patches that fail

VARIABLES
  text,      \* the blocks of the answer
  managed,   \* the conclusion of a turn is managed, an item is not
  reuse,     \* the first card replaces an earlier message
  chunks,    \* what is still to be sent
  sent,      \* the messages that carry the answer, in order
  patch,     \* tracker.Patches and the patch loop of each message
  link,      \* the routine that rewrites the links of each message
  failures   \* failures so far

vars == <<text, managed, reuse, chunks, sent, patch, link, failures>>

Blocks == [size : 1..MaxSize, table : BOOLEAN]
Units(blocks, b) == [k \in 1..blocks[b].size |-> <<b, k, blocks[b].table>>]
TextOf(blocks) ==
  FoldLeft(LAMBDA acc, b : acc \o Units(blocks, b), <<>>,
           [b \in 1..Len(blocks) |-> b])
TablesIn(blocks, body) ==
  {b \in 1..Len(blocks) : blocks[b].table /\ \E k \in DOMAIN body : body[k][1] = b}

Size(set) == LET RECURSIVE N(_)
                 N(S) == IF S = {} THEN 0 ELSE 1 + N(S \ {CHOOSE x \in S : TRUE})
             IN N(set)

Chunk(body, header, footer) == [body |-> body, header |-> header, footer |-> footer]

(* replyCardChunkFits.                                                     *)
Fits(c) ==
  Len(c.body) + (IF c.header THEN 1 ELSE 0) + (IF c.footer THEN 1 ELSE 0) <= Cap

(* SplitMarkdownByTableLimit: a new part before the table that is one too  *)
(* many.                                                                   *)
TableParts(blocks) ==
  LET step(acc, b) ==
        LET full == /\ blocks[b].table /\ acc.tables + 1 > MaxTables
                    /\ acc.cur # <<>>
            base == IF full THEN [parts |-> Append(acc.parts, acc.cur),
                                  cur |-> <<>>, tables |-> 0] ELSE acc
        IN [base EXCEPT !.cur = Append(@, b),
                        !.tables = @ + (IF blocks[b].table THEN 1 ELSE 0)]
      all == FoldLeft(step, [parts |-> <<>>, cur |-> <<>>, tables |-> 0],
                      [b \in 1..Len(blocks) |-> b])
  IN IF all.cur = <<>> THEN all.parts ELSE Append(all.parts, all.cur)

(* SplitReplyTextBlockToFit: halves of a text that does not fit.           *)
RECURSIVE Halves(_, _)
Halves(body, header) ==
  IF Fits(Chunk(body, header, FALSE)) \/ Len(body) = 1 THEN <<body>>
  ELSE LET mid == Len(body) \div 2
       IN Halves(SubSeq(body, 1, mid), header)
          \o Halves(SubSeq(body, mid + 1, Len(body)), header)

\* Mutant of Place: the chunk that was full is dropped when a block starts a new one.
PlaceDropsFull(blocks, acc, b) ==
  LET units == Units(blocks, b)
      joined == [acc.cur EXCEPT !.body = @ \o units]
      flushed == IF acc.cur.body = <<>> THEN acc
                 ELSE [res |-> acc.res, cur |-> Chunk(<<>>, FALSE, FALSE)]
      alone == [flushed.cur EXCEPT !.body = units]
  IN IF Fits(joined) THEN [acc EXCEPT !.cur = joined]
     ELSE IF Fits(alone) THEN [flushed EXCEPT !.cur = alone]
     ELSE [res |-> Append(flushed.res, alone), cur |-> Chunk(<<>>, FALSE, FALSE)]

(* One round of expandReplyCardChunkToFit: the block joins the current     *)
(* chunk, or starts the next one, or is a chunk by itself: a table whole,  *)
(* a text in halves.                                                       *)
Place(blocks, acc, b) ==
  LET units == Units(blocks, b)
      joined == [acc.cur EXCEPT !.body = @ \o units]
      flushed == IF acc.cur.body = <<>> THEN acc
                 ELSE [res |-> Append(acc.res, acc.cur),
                       cur |-> Chunk(<<>>, FALSE, FALSE)]
      alone == [flushed.cur EXCEPT !.body = units]
      parts == IF blocks[b].table THEN <<units>>
               ELSE Halves(units, flushed.cur.header)
      placed == [p \in 1..Len(parts) |->
                   Chunk(parts[p], p = 1 /\ flushed.cur.header, FALSE)]
  IN IF Fits(joined) THEN [acc EXCEPT !.cur = joined]
     ELSE IF Fits(alone) THEN [flushed EXCEPT !.cur = alone]
     ELSE [res |-> flushed.res \o placed, cur |-> Chunk(<<>>, FALSE, FALSE)]

(* The rest of expandReplyCardChunkToFit: the footer goes to the last      *)
(* chunk, or to a chunk of its own when that makes both fit.               *)
Expand(blocks, part, header, footer) ==
  LET whole == Chunk(FoldLeft(LAMBDA acc, b : acc \o Units(blocks, b), <<>>, part),
                     header, footer)
      all == FoldLeft(LAMBDA acc, b : Place(blocks, acc, b),
                      [res |-> <<>>, cur |-> Chunk(<<>>, header, FALSE)], part)
      res == IF all.cur.body # <<>> \/ all.res = <<>>
             THEN Append(all.res, all.cur) ELSE all.res
      last == res[Len(res)]
      front == SubSeq(res, 1, Len(res) - 1)
      ended == [last EXCEPT !.footer = footer]
      only == Chunk(<<>>, FALSE, footer)
  IN IF Fits(whole) THEN <<whole>>
     ELSE IF ~Fits(ended) /\ Fits(last) /\ Fits(only) THEN res \o <<only>>
     ELSE Append(front, ended)

(* BuildReplyCardChunks and fitReplyCardChunks, then prepareSpecs, which   *)
(* numbers the cards of a final answer that has several: each has a header *)
(* then, although only the first one was measured with it.                 *)
SplitReply(blocks) ==
  LET parts == TableParts(blocks)
      all == FoldLeft(LAMBDA acc, p :
                        acc \o Expand(blocks, parts[p], p = 1, p = Len(parts)),
                      <<>>, [p \in 1..Len(parts) |-> p])
  IN IF Len(all) = 1 THEN all
     ELSE [c \in 1..Len(all) |-> [all[c] EXCEPT !.header = TRUE]]

NoPatch == [state |-> "none", body |-> "raw", loop |-> "none", dirty |-> FALSE,
            preview |-> FALSE, timers |-> 0]

Init ==
  /\ text \in UNION {[1..n -> Blocks] : n \in 1..MaxBlocks}
  /\ managed \in BOOLEAN /\ reuse \in BOOLEAN
  /\ chunks = SplitReply(text)
  /\ sent = <<>> /\ patch = <<>> /\ link = <<>> /\ failures = 0

Fails == failures < MaxFailures /\ failures' = failures + 1

(* pruneLocked: a timer for an idle state, at most one at a time.          *)
Pruned(p) ==
  IF p.state = "none" \/ p.loop # "none" \/ p.dirty \/ p.preview \/ p.timers > 0
  THEN p ELSE [p EXCEPT !.timers = 1]

\* Mutant of Registered: the preview is not marked pending before the routine runs.
RegisteredIdle == Pruned([NoPatch EXCEPT !.state = "live"])

(* RegisterFinalCardPatchState with MarkFinalCardPreviewPending, as        *)
(* SendFinalMessagesWithFooter and Schedule call them for a card.          *)
Registered == [NoPatch EXCEPT !.state = "live", !.preview = TRUE]

Delivered(body, form) ==
  /\ sent' = Append(sent, [body |-> body, form |-> form, links |-> "raw"])
  /\ patch' = Append(patch, IF managed /\ form = "card" /\ body.body # <<>>
                            THEN Registered ELSE NoPatch)
  /\ link' = Append(link, IF /\ form = "card" /\ body.body # <<>>
                             /\ Len(sent) + 1 \in Tracked
                          THEN "rewrite" ELSE "none")
  /\ chunks' = Tail(chunks)

(* sendChunk: the patch of the reused message, else a card, else text;     *)
(* when the text fails too the rest is not sent (SendWithReuseIDs).        *)
SendChunk ==
  /\ chunks # <<>>
  /\ \/ Delivered(Head(chunks), "card") /\ UNCHANGED <<failures, reuse>>
     \/ /\ reuse /\ sent = <<>> /\ Fails /\ reuse' = FALSE
        /\ UNCHANGED <<sent, patch, link, chunks>>
     \/ Fails /\ Delivered(Head(chunks), "text") /\ UNCHANGED reuse
     \/ /\ Fails /\ chunks' = <<>> /\ UNCHANGED <<sent, patch, link, reuse>>
  /\ UNCHANGED <<text, managed>>

(* The routine of Schedule: it rewrites the links of the card; nothing     *)
(* changed, or the managed state takes the new body, or the card is        *)
(* patched directly.                                                       *)
Rewrite(m, changed) ==
  /\ link[m] = "rewrite"
  /\ IF ~changed THEN link' = [link EXCEPT ![m] = "done"] /\ UNCHANGED patch
     ELSE IF patch[m].state = "live"
     THEN /\ patch' = [patch EXCEPT ![m].body = "linked", ![m].dirty = TRUE,
                         ![m].loop = IF @ = "none" THEN "next" ELSE @]
          /\ link' = [link EXCEPT ![m] = "done"]
     ELSE link' = [link EXCEPT ![m] = "patch"] /\ UNCHANGED patch
  /\ UNCHANGED <<text, managed, reuse, chunks, sent, failures>>

PatchDirectly(m) ==
  /\ link[m] = "patch"
  /\ link' = [link EXCEPT ![m] = "end"]
  /\ \/ sent' = [sent EXCEPT ![m].links = "linked"] /\ UNCHANGED failures
     \/ Fails /\ UNCHANGED sent
  /\ UNCHANGED <<text, managed, reuse, chunks, patch>>

(* MarkFinalCardPreviewDone, deferred by the routine.                      *)
PreviewDone(m) ==
  /\ link[m] = "done"
  /\ link' = [link EXCEPT ![m] = "end"]
  /\ patch' = [patch EXCEPT ![m] = Pruned([@ EXCEPT !.preview = FALSE])]
  /\ UNCHANGED <<text, managed, reuse, chunks, sent, failures>>

(* runPatchLoop: nextSnapshot, patchSnapshot, finishIteration.             *)
NextSnapshot(m) ==
  /\ patch[m].loop = "next"
  /\ patch' = [patch EXCEPT ![m].loop = IF patch[m].state = "none" THEN "none"
                                        ELSE patch[m].body,
                            ![m].dirty = FALSE]
  /\ UNCHANGED <<text, managed, reuse, chunks, sent, link, failures>>

PatchSnapshot(m) ==
  /\ patch[m].loop \in {"raw", "linked"}
  /\ \/ sent' = [sent EXCEPT ![m].links = patch[m].loop] /\ UNCHANGED failures
     \/ Fails /\ UNCHANGED sent
  /\ patch' = [patch EXCEPT ![m].loop = "finish"]
  /\ UNCHANGED <<text, managed, reuse, chunks, link>>

FinishIteration(m) ==
  /\ patch[m].loop = "finish"
  /\ patch' = [patch EXCEPT ![m] =
                 IF @.state = "live" /\ @.dirty THEN [@ EXCEPT !.loop = "next"]
                 ELSE Pruned([@ EXCEPT !.loop = "none"])]
  /\ UNCHANGED <<text, managed, reuse, chunks, sent, link, failures>>

(* tryPrune, by the timer.                                                 *)
TryPrune(m) ==
  /\ patch[m].timers > 0
  /\ patch' = [patch EXCEPT ![m].timers = 0,
                            ![m].state = IF \/ patch[m].loop # "none"
                                                \/ patch[m].dirty \/ patch[m].preview
                                             THEN @ ELSE "none"]
  /\ UNCHANGED <<text, managed, reuse, chunks, sent, link, failures>>

Next ==
  \/ SendChunk
  \/ \E m \in DOMAIN link :
       \/ \E changed \in BOOLEAN : Rewrite(m, changed)
       \/ PatchDirectly(m) \/ PreviewDone(m) \/ TryPrune(m)
       \/ NextSnapshot(m) \/ PatchSnapshot(m) \/ FinishIteration(m)

Spec == Init /\ [][Next]_vars
-----------------------------------------------------------------------------
Written == FoldLeft(LAMBDA acc, c : acc \o c.body, <<>>, [m \in 1..Len(sent) |-> sent[m].body])
Pending == FoldLeft(LAMBDA acc, c : acc \o c.body, <<>>, chunks)

(* The split loses, repeats and reorders nothing: the cards that are out   *)
(* and the ones still to be sent spell the answer, only the last card has  *)
(* the footer, no card has more tables than Feishu renders, and one whose  *)
(* text is too large is a single table or a single unit.                   *)
SplitFaithful ==
  failures = 0 =>
    LET all == [m \in 1..Len(sent) |-> sent[m].body] \o chunks
    IN /\ Written \o Pending = TextOf(text)
       /\ \A c \in 1..Len(all) :
            /\ (c = Len(all)) = all[c].footer
            /\ Size(TablesIn(text, all[c].body)) <= MaxTables
            /\ \/ Fits(Chunk(all[c].body, FALSE, FALSE))
               \/ Len(all[c].body) = 1
               \/ Size(TablesIn(text, all[c].body)) = 1

(* When every routine is at rest and no patch failed, a managed card shows *)
(* the body its state holds, and the links of a card are patched by one    *)
(* routine only: the loop of a managed card never races a direct patch     *)
(* (PreviewPending keeps the state).                                       *)
LinksSettle ==
  \A m \in DOMAIN patch :
    /\ managed => link[m] # "patch"
    /\ managed /\ patch[m].loop = "none" /\ failures = 0 =>
         sent[m].links = patch[m].body
=============================================================================
