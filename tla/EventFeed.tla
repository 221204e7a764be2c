------------------------------ MODULE EventFeed ------------------------------
(***************************************************************************)
(* What a session promises the runtime, without streams, crashes or        *)
(* retries: a feed that grows by one delivery at a time, whose deliveries  *)
(* the runtime takes once each and in order, and which grows further only  *)
(* when its last delivery is committed.  A checkpoint-neutral delivery is  *)
(* committed without being taken.                                          *)
(***************************************************************************)
EXTENDS Integers, Sequences

VARIABLES
    feed,    \* every delivery that was ever put into the outbox
    taken,   \* the deliveries whose effects the runtime holds
    done     \* how many deliveries of the feed are committed

feedVars == <<feed, taken, done>>

Last(s) == s[Len(s)]

Open == done < Len(feed)

FeedInit == feed = <<>> /\ taken = <<>> /\ done = 0

Offer ==
    /\ ~Open
    /\ Len(feed') = Len(feed) + 1
    /\ feed' = Append(feed, Last(feed'))
    /\ Last(feed').seq = Len(feed')
    /\ UNCHANGED <<taken, done>>

HoldsLast == taken # <<>> /\ Last(taken) = Last(feed)

Take ==
    /\ Open /\ ~Last(feed).neutral /\ ~HoldsLast
    /\ taken' = Append(taken, Last(feed))
    /\ UNCHANGED <<feed, done>>

Commit ==
    /\ Open
    /\ Last(feed).neutral \/ HoldsLast
    /\ done' = Len(feed)
    /\ UNCHANGED <<feed, taken>>

FeedNext == Offer \/ Take \/ Commit

FeedSpec == FeedInit /\ [][FeedNext]_feedVars
=============================================================================
