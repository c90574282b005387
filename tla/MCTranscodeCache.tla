-------------------------- MODULE MCTranscodeCache --------------------------
EXTENDS TranscodeCache, TLC

CONSTANTS r1, r2, ta, tb, pa, pb

TwoRequests == {r1, r2}
OneRequest == {r1}
TwoTracks == {ta, tb}
TwoPaths == {pa, pb}

\* Both tracks are there at the start, or the second is still to be uploaded.
BothHome == ta :> pa @@ tb :> pb
FirstHome == ta :> pa @@ tb :> Unborn
Roomy == {FirstHome}
FullOrRoomy == {BothHome, FirstHome}

\* Two cache keys on two mutexes.
Apart == ta :> 1 @@ tb :> 2

LastRanged == {r2}
NoneRanged == {}
=============================================================================
