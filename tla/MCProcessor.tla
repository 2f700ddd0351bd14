----------------------------- MODULE MCProcessor -----------------------------
(***************************************************************************)
(* Small instances of Processor.  The guardian sets overlap, as they do    *)
(* when one guardian is appended or replaced, and differ in quorum.        *)
(***************************************************************************)
EXTENDS Processor, TLC

CONSTANTS g1, g2, g3, g4, d1, d2, gov, id1, idGov

MCGrowing   == 0 :> <<g1, g2>> @@ 1 :> <<g1, g2, g3, g4>>
MCFour      == 0 :> <<g1, g2, g3, g4>>
MCReplacing == 0 :> <<g1, g2>> @@ 1 :> <<g3, g1>>

\* Two digests of one id: the message was mined again in a later block.
MCIdOfChain      == d1 :> id1 @@ d2 :> id1
MCTimestampChain == d1 :> 0 @@ d2 :> 2

MCIdOfOne      == d1 :> id1
MCTimestampOne == d1 :> 0

\* What peers send.  List(i, at) is a list of signatures of set i at the
\* positions of at, in that order, and VAA names set n, whichever signed.
List(i, at) == [k \in DOMAIN at |-> <<at[k], GuardianSets[i][at[k]]>>]
VAA(d, n, sigs) == [digest |-> d, gsIndex |-> n, sigs |-> sigs]

\* Two honest VAAs, one that names the other set, one with a repeated signature.
MCGossipChain ==
    { VAA(d1, 0, List(0, <<1, 2>>)), VAA(d1, 1, List(1, <<1, 1>>)),
      VAA(d2, 0, List(1, <<1, 2>>)), VAA(d2, 1, List(1, <<1, 2>>)) }

MCGossipOne ==
    { VAA(d1, 0, List(0, <<1, 2>>)), VAA(d1, 0, List(1, <<2, 1>>)) }

\* An honest governance VAA, and one that repeats a signature.
MCGossipFour ==
    { VAA(gov, 0, List(0, <<1, 2, 4>>)), VAA(gov, 0, List(0, <<2, 3, 3>>)) }

\* Bound: a state in which a second VAA has been broadcast is checked, and its
\* successors are not.
MCOneBroadcast == Cardinality(BroadcastVAAs) <= 1

\* A VAA of each set that names the other, and one with a signature out of
\* place.
MCGossipGrowing ==
    { VAA(gov, 1, List(0, <<2, 1>>)), VAA(gov, 0, List(1, <<1, 3, 4>>)),
      VAA(gov, 0, <<<<1, g1>>, <<3, g2>>>>) }

\* A governance VAA.
MCIdOfGov      == gov :> idGov
MCTimestampGov == gov :> 0
=============================================================================
