----------------------------- MODULE MCSteamWalk -----------------------------
(* Small instances of SteamWalk: five reviews, the first older than some    *)
(* windows, a page of two and a batch of two, so that pages straddle tags    *)
(* and the start of the window.                                             *)
EXTENDS SteamWalk

MCTagOf == [r \in 1 .. LastReview |-> IF r \in {2, 4} THEN "launch" ELSE "general"]

\* One window, open at the newest end.
MCWindow == {[from |-> 2, to |-> LastReview + 1]}

\* Two windows that overlap: one starts before the stream, one ends early.
MCTwoWindows == {[from |-> 1, to |-> 4], [from |-> 2, to |-> LastReview + 1]}

MCOneStream == {"all"}
MCMember == [s \in {"all"} |-> 1 .. LastReview]
MCRank == [s \in {"all"} |-> [r \in 1 .. LastReview |-> r]]

\* The stream ends before the fifth review: once all are posted, the oldest is
\* out of reach, whether or not it was when the walk began.
MCDepth == [s \in {"all"} |-> 4]

\* filter=updated: an order that interleaves old and new reviews. The one
\* older than the window is the second of the first page.
MCUpdated == {"updated"}
MCUpdatedMember == [s \in {"updated"} |-> 1 .. LastReview]
MCUpdatedRank == [s \in {"updated"} |-> <<4, 5, 1, 3, 2>>]
MCUpdatedDepth == [s \in {"updated"} |-> 4]

\* Two language streams of the same application.
MCTwoStreams == {"english", "all"}
MCTwoMember ==
  [s \in MCTwoStreams |-> IF s = "all" THEN 1 .. LastReview
                          ELSE {r \in 1 .. LastReview : r % 2 = 1}]
MCTwoRank == [s \in MCTwoStreams |-> [r \in 1 .. LastReview |-> r]]
MCTwoDepth == [s \in MCTwoStreams |-> LastReview]
=============================================================================
