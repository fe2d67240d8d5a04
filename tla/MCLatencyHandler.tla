------------------------- MODULE MCLatencyHandler -------------------------
(* Small instances of LatencyHandler for TLC. *)
EXTENDS LatencyHandler

\* Names of one or two letters.
Client == <<67>>
Server == <<83, 83>>
Id == <<111>>
Vod == <<86>>
Num == <<49, 50>>

\* An order and a quote under the same key, an order under a key of its own that
\* differs from theirs in which side a letter is on.
MCConversations == 1 .. 3
MCAbout ==
  <<[kind |-> "order", client |-> Client, server |-> Server, id |-> Id,
     symbol |-> Vod, security |-> Num],
    [kind |-> "quote", client |-> Client, server |-> Server, id |-> Id,
     symbol |-> Vod, security |-> <<>>],
    [kind |-> "order", client |-> Server, server |-> Client, id |-> Id,
     symbol |-> <<>>, security |-> Num]>>

\* The second ring's clock is ahead.
MCClock == [r \in Rings |-> r - 1]

=============================================================================
