--------------------------- MODULE MCStoryRemoval ---------------------------
(* StoryRemoval on two stories.                                            *)
EXTENDS StoryRemoval

CONSTANTS s1, s2, none

MCStories == {s1, s2}
MCNoStory == none
MCMaxFaults == 3
MCMaxCrashes == 2
============================================================================
