------------------------------- MODULE Chain -------------------------------
(***************************************************************************)
(* The block references every component of the system exchanges.           *)
(*                                                                         *)
(* A `BlockRef` of the protocol is a number, a hash, a parent hash and a   *)
(* timestamp.  A model block stands for one such reference; two references *)
(* with the same hash are the same block, and the other three fields are   *)
(* functions of it.  None is the absent value of every `Option` of the     *)
(* code.                                                                   *)
(***************************************************************************)
EXTENDS Integers, Sequences, FiniteSets

CONSTANTS
    Block,   \* the block references that can occur
    Num,     \* Num[b]: block number
    Parent,  \* Parent[b]: the block named by parent_hash, or None
    Time,    \* Time[b]: timestamp
    None     \* the absent value

ASSUME ChainAssumption ==
    /\ Num \in [Block -> Nat]
    /\ Time \in [Block -> Nat]
    /\ Parent \in [Block -> Block \cup {None}]
    /\ None \notin Block
    /\ None \notin Nat

OptBlock == Block \cup {None}

\* The optional-block comparisons of the code only look at the number.
NumberAtLeast(b, n) == b # None /\ Num[b] >= n
=============================================================================
