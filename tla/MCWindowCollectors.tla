-------------------------- MODULE MCWindowCollectors --------------------------
\* A window of three hours in slices of two, so that the last slice is short.
\* The event has two of three videos; y0 and y4 are outside the window, just
\* before it and at its end. Each subreddit has a submission in another slice,
\* one of them with comments of which the last is too deep. A search returns two
\* of the three submissions of Games: p0, in the window, is behind p9, after it.
\* The first two passes collect within one second.
EXTENDS WindowCollectors

MCTime == [y0 |-> 0, y1 |-> 1, y2 |-> 3, y3 |-> 2, y4 |-> 4, p1 |-> 2, c1 |-> 5, c2 |-> 5,
           p9 |-> 4, p2 |-> 3, p0 |-> 1]
MCKeys == DOMAIN MCTime
MCSecond == <<1, 1, 2>>
MCRows == {[id |-> k, at |-> MCSecond[p], pass |-> p] : k \in MCKeys, p \in 1 .. MaxPasses}
MCVideos == <<[id |-> "v1", events |-> {"launch"}, placeholder |-> FALSE],
              [id |-> "v0", events |-> {"launch"}, placeholder |-> TRUE],
              [id |-> "v2", events |-> {"launch", "dlc"}, placeholder |-> FALSE],
              [id |-> "v3", events |-> {"dlc"}, placeholder |-> FALSE]>>
MCThreads == [v1 |-> << << <<"y4", "y2">>, <<"y0">> >>, << <<"y1">> >> >>,
              v2 |-> << << >> >>, v3 |-> << << <<"y3">> >> >>, v0 |-> <<>>]
MCSubreddits == <<"JRPG", "Games">>
MCPosts == [Games |-> <<"p9", "p2", "p0">>, JRPG |-> <<"p1">>]
Symmetry == Permutations(Loaders)
MCReplies == [k \in MCKeys |-> CASE k = "p1" -> {"c1"} [] k = "c1" -> {"c2"} [] OTHER -> {}]

\* The theorem about passes takes this of the APIs.
ASSUME AnswersAsTaken == AnswersOnce
===============================================================================
