---------------------------- MODULE MCPageWalks ----------------------------
(***************************************************************************)
(* PageWalks for TLC: five rows, two pages of two rows at most, so that a  *)
(* walk ends early, at its end or at the cap; documents three levels deep  *)
(* with a slug that occurs twice; two replies; task rows of which one, two *)
(* or three fit a page.                                                    *)
(***************************************************************************)
EXTENDS PageWalks, TLC

CONSTANTS r1, r2, r3, r4, r5

MCOrder   == <<r1, r2, r3, r4, r5>>
MCAbove   == r1 :> NoRow @@ r2 :> r1 @@ r3 :> NoRow @@ r4 :> r2 @@ r5 :> r3
MCAnswers == r1 :> NoRow @@ r2 :> NoRow @@ r3 :> r1 @@ r4 :> NoRow @@ r5 :> r1
MCSlug    == r1 :> "a" @@ r2 :> "b" @@ r3 :> "b" @@ r4 :> "a" @@ r5 :> "a"
MCWeight  == r1 :> 1 @@ r2 :> 2 @@ r3 :> 1 @@ r4 :> 5 @@ r5 :> 1
=============================================================================
