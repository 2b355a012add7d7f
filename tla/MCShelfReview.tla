--------------------------- MODULE MCShelfReview ---------------------------
(* Instance of ShelfReview for TLC.                                        *)
EXTENDS ShelfReview

CONSTANTS s1, s2, c1, c2

OneStory == {s1}
TwoStories == {s1, s2}
OneCollection == {c1}
TwoCollections == {c1, c2}

=============================================================================
