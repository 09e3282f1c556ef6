-------------------------- MODULE MCMatchingSearch --------------------------
EXTENDS MatchingSearch

\* Every code of at most eight detectors, up to distance 9 and four rounds.  A
\* pattern of eight fired detectors has 764 matchings.
MCCodes ==
  {c \in [distance : {3, 5, 7, 9}, rounds : 1..4] : DetectorCount(c) <= 8}
=============================================================================
