------------------------- MODULE MCEvidencePipeline -------------------------
(***************************************************************************)
(* The feeds the evidence pipeline is checked against.                     *)
(***************************************************************************)
EXTENDS EvidencePipeline

CONSTANTS t, u,     \* tradeables
          a         \* an anchor

Symbols == {t, u, a}

Shown(feed, origin, story, published, id) ==
    [feed |-> feed, origin |-> origin, story |-> story, published |-> published, id |-> id]

\* A filing of t discloses that the anchor is its customer, and two papers tell
\* one story about the anchor, whose ecosystem t and u are in: until the filing
\* is extracted the story reaches both as peers, then t alone by its link.
Filing == Shown("report", t, "results", 1, "10-Q")
Story == Shown("news", a, "order", 1, "Wire")
Retold == Shown("news", a, "order", 2, "Daily")

\* One 6-K of t's, and what it says is about t alone.
SixK == Shown("6-K", t, "monthly", 1, "6-K")

Discovery(feeds) == [i \in feeds |-> IF i = Filing THEN {<<a, t>>} ELSE {}]
Peerage == {<<a, t>>, <<a, u>>}

Feed == {Filing, Story, Retold}
FeedDiscloses == Discovery(Feed)

ShortFeed == {Filing, Story}
ShortFeedDiscloses == Discovery(ShortFeed)

\* Two unrelated stories about the anchor, linked to both from the start.
OtherStory == Shown("news", a, "strike", 1, "Wire too")
BusyFeed == {Story, OtherStory}
BusyFeedDiscloses == Discovery(BusyFeed)
Supplies == {<<a, t>>, <<a, u>>}

SixKFeed == {SixK}
SixKFeedDiscloses == Discovery(SixKFeed)
=============================================================================
