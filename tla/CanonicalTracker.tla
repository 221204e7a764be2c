-------------------------- MODULE CanonicalTracker --------------------------
(***************************************************************************)
(* The tracker on its own: any list of block references may be applied to  *)
(* it, and a durable checkpoint may replace it.                            *)
(***************************************************************************)
EXTENDS CanonicalHistory

CONSTANT Inputs   \* lists of references that callers apply

(***************************************************************************)
(* apply_blocks_in_place as the code runs it, one block at a time.  The    *)
(* accumulator is the history so far, the first fork point met, and        *)
(* whether all went well.                                                  *)
(***************************************************************************)
Push(blocks, b) ==
    LET longer == Append(blocks, b) IN
    IF Len(longer) > Depth THEN Tail(longer) ELSE longer

ApplyBlock(acc, b) ==
    CASE ~acc.ok -> acc
      [] acc.ok /\ Known(acc.blocks, b) -> acc
      [] acc.ok /\ Replaces(acc.blocks, b) ->
            [acc EXCEPT !.blocks = Push(UpTo(acc.blocks, Num[b] - 1), b),
                        !.ancestor = IF @ = None THEN Parent[b] ELSE @]
      [] acc.ok /\ ~Known(acc.blocks, b) /\ Follows(acc.blocks, b) ->
            [acc EXCEPT !.blocks = Push(acc.blocks, b)]
      [] OTHER -> [acc EXCEPT !.ok = FALSE]

ApplyLoop(blocks, input) ==
    LET start == [blocks |-> blocks, ancestor |-> None, ok |-> Contiguous(input)]
        end == FoldLeft(ApplyBlock, start, input)
    IN  [ok |-> end.ok,
         blocks |-> IF end.ok THEN end.blocks ELSE blocks,
         reorg |-> IF end.ok /\ end.ancestor # None
                   THEN [ancestor |-> end.ancestor, old |-> Tip(blocks), new |-> Tip(end.blocks)]
                   ELSE None]

VARIABLE blocks   \* CanonicalTracker::blocks

TrackerInit == blocks = <<>>

Apply(input) == blocks' = ApplyLoop(blocks, input).blocks

Restore(input) == blocks' = RestoreBlocks(blocks, input).blocks

TrackerNext == \E input \in Inputs : Apply(input) \/ Restore(input)

TrackerSpec == TrackerInit /\ [][TrackerNext]_blocks

(***************************************************************************)
(* Properties                                                              *)
(***************************************************************************)
\* What the loop does to any history with any input is what ApplyBlocks says:
\* the engine's model may use the one for the other.  A list that is applied
\* without a reported reorg leaves the old tip on the new tip's branch, and a
\* reported reorg names the block at which the two branches part, wherever in
\* the list the fork starts.
LoopAsSpecified ==
    \A input \in Inputs :
        LET applied == ApplyLoop(blocks, input) IN
        /\ applied = ApplyBlocks(blocks, input)
        /\ applied.ok /\ blocks # <<>> =>
              IF applied.reorg = None THEN Tip(blocks) \in Branch[Tip(applied.blocks)]
              ELSE applied.reorg.ancestor = CommonAncestor(applied.reorg.old, applied.reorg.new)
=============================================================================
