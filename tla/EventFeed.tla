----------------------------- MODULE EventFeed -----------------------------
(***************************************************************************)
(* What the event subscription promises to the caller of a client: its view  *)
(* is always a prefix of the durable event log without a hole; while the     *)
(* subscription is live the view grows by the next event and by nothing      *)
(* else; a subscription that lost its place says so before its view jumps;   *)
(* and a view is never rebased on an older prefix than the one it shows.     *)
(***************************************************************************)
EXTENDS Naturals

CONSTANT MaxEvents      \* bound: events the host ever commits

VARIABLES
    newest,     \* events committed so far
    view,       \* the set of events the caller's model contains
    held,       \* whether the caller holds a model at all
    live        \* whether the subscription claims that nothing is missing

feed == <<newest, view, held, live>>

FeedInit == newest = 0 /\ view = {} /\ ~held /\ ~live

\* The host commits one or more events.
Publish ==
    /\ newest' \in newest + 1 .. MaxEvents
    /\ UNCHANGED <<view, held, live>>

\* A live subscription delivers exactly the next event.
Deliver ==
    /\ live
    /\ \E n \in 1 .. newest : view = 1 .. (n - 1) /\ view' = 1 .. n
    /\ UNCHANGED <<newest, held, live>>

\* The subscription admits that it lost its place, keeping the model it has.
Lose ==
    /\ live' = FALSE
    /\ UNCHANGED <<newest, view, held>>

\* The caller throws the model away.
Forget ==
    /\ view' = {} /\ ~held' /\ ~live'
    /\ UNCHANGED newest

\* A snapshot and a replay build a new model, at least as recent as the old one.
Rebase ==
    /\ ~live
    /\ \E n \in 0 .. newest : view' = 1 .. n
    /\ view \subseteq view'
    /\ held' /\ live'
    /\ UNCHANGED newest

FeedNext == Publish \/ Deliver \/ Lose \/ Forget \/ Rebase

FeedSpec == FeedInit /\ [][FeedNext]_feed
=============================================================================
