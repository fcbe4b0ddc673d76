CONSTANTS
  Week <- ThursdayOn
  Days = 4
  Horizons = {1, 2, 3}
  MaxEpisodes = 2
  MaxRelogs = 1
  MaxMarks = 3

SPECIFICATION Spec

CONSTRAINT ThreeDaysOfVotes

INVARIANTS EventTimeAligned WindowsIndependent EpisodeVotesOnce ReplayConservative

CHECK_DEADLOCK FALSE
