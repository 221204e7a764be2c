-------------------------- MODULE CanonicalHistory --------------------------
(***************************************************************************)
(* The bounded canonical history of a source engine, as pure operators: a  *)
(* sequence of retained blocks, oldest first, and what apply_blocks makes  *)
(* of it.  Blocks are full references with distinct hashes (see Chain), so *)
(* a hash never acquires other metadata and widths are always right.       *)
(***************************************************************************)
EXTENDS Chain, SequencesExt

CONSTANT Depth   \* reorg_depth

ASSUME DepthAssumption == Depth \in Nat \ {0}

Tip(blocks) == IF blocks = <<>> THEN None ELSE Last(blocks)

BlockAt(blocks, n) ==
    IF \E b \in Range(blocks) : Num[b] = n
    THEN CHOOSE b \in Range(blocks) : Num[b] = n
    ELSE None

UpTo(blocks, n) == SelectSeq(blocks, LAMBDA b : Num[b] <= n)

\* No more than Depth blocks are kept, the newest ones.
Retained(blocks) == SubSeq(blocks, Max({1, Len(blocks) - Depth + 1}), Len(blocks))

Contiguous(input) ==
    \A i \in 1..(Len(input) - 1) : Num[input[i + 1]] = Num[input[i]] + 1

(***************************************************************************)
(* apply_blocks.  Blocks that are retained already are skipped.  The first *)
(* other one continues the history, or replaces its suffix above the block *)
(* it names as parent; nothing above it is retained from then on, so every *)
(* later one has to follow its predecessor.                                *)
(***************************************************************************)
Known(blocks, b) == BlockAt(blocks, Num[b]) = b

Replaces(blocks, b) ==
    /\ BlockAt(blocks, Num[b]) \notin {None, b}
    /\ Num[b] > 0 /\ BlockAt(blocks, Num[b] - 1) # None
    /\ BlockAt(blocks, Num[b] - 1) = Parent[b]

\* Mutant: a block of the next number follows whatever its parent is.
FollowsAnything(blocks, b) ==
    blocks = <<>> \/ (BlockAt(blocks, Num[b]) = None /\ Num[b] = Num[Tip(blocks)] + 1)

Follows(blocks, b) ==
    \/ blocks = <<>>
    \/ /\ BlockAt(blocks, Num[b]) = None
       /\ Num[b] = Num[Tip(blocks)] + 1
       /\ Parent[b] = Tip(blocks)

\* An input from its first block that is not retained on.
Fresh(blocks, input) ==
    SubSeq(input, Min({i \in DOMAIN input : ~Known(blocks, input[i])} \cup {Len(input) + 1}),
           Len(input))

\* Mutant: only the first fresh block has to join.
ApplyAcceptsUnlinked(blocks, input) ==
    LET fresh == Fresh(blocks, input) IN
    /\ Contiguous(input)
    /\ fresh # <<>> => Replaces(blocks, Head(fresh)) \/ Follows(blocks, Head(fresh))

ApplyBlocksAccepts(blocks, input) ==
    LET fresh == Fresh(blocks, input) IN
    /\ Contiguous(input)
    /\ fresh # <<>> =>
          /\ Replaces(blocks, Head(fresh)) \/ Follows(blocks, Head(fresh))
          /\ \A i \in 2..Len(fresh) :
                Parent[fresh[i]] = fresh[i - 1] /\ Num[fresh[i]] = Num[fresh[i - 1]] + 1

Applied(blocks, input) ==
    LET fresh == Fresh(blocks, input) IN
    IF fresh = <<>> THEN blocks
    ELSE Retained(UpTo(blocks, Num[Head(fresh)] - 1) \o fresh)

\* Mutant: the oldest retained block is taken for the fork point.
ApplyBlocksOldest(blocks, input) ==
    LET ok == ApplyBlocksAccepts(blocks, input)
        fresh == Fresh(blocks, input)
    IN  [ok |-> ok,
         blocks |-> IF ok THEN Applied(blocks, input) ELSE blocks,
         reorg |-> IF ok /\ fresh # <<>> /\ Replaces(blocks, Head(fresh))
                   THEN [ancestor |-> Head(blocks),
                         old |-> Tip(blocks), new |-> Last(fresh)]
                   ELSE None]

\* The outcome of apply_blocks: ok, the new history, and the reorg it found.
ApplyBlocks(blocks, input) ==
    LET ok == ApplyBlocksAccepts(blocks, input)
        fresh == Fresh(blocks, input)
    IN  [ok |-> ok,
         blocks |-> IF ok THEN Applied(blocks, input) ELSE blocks,
         reorg |-> IF ok /\ fresh # <<>> /\ Replaces(blocks, Head(fresh))
                   THEN [ancestor |-> Parent[Head(fresh)], old |-> Tip(blocks), new |-> Last(fresh)]
                   ELSE None]

RestoreBlocks(blocks, input) ==
    LET applied == ApplyBlocks(<<>>, input) IN
    [applied EXCEPT !.blocks = IF applied.ok THEN @ ELSE blocks]

(***************************************************************************)
(* The block tree, for properties and for the provider's side.             *)
(***************************************************************************)
Branch[b \in Block] == {b} \cup (IF Parent[b] = None THEN {} ELSE Branch[Parent[b]])

CommonAncestor(a, b) ==
    CHOOSE c \in Branch[a] \cap Branch[b] :
        \A d \in Branch[a] \cap Branch[b] : Num[d] <= Num[c]
=============================================================================
