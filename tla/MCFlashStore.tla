---------------------------- MODULE MCFlashStore ----------------------------
(* An instance of FlashStore: one slot and the slot number past it, a file   *)
(* that spans sectors and an empty one.                                      *)
EXTENDS FlashStore, TLC

CONSTANTS long, empty

MCDataOf == (long :> {"front", "rest"}) @@ (empty :> {})

WholeImages == {Image(f) : f \in {long, empty}}

\* Images of a peer that was reset while it stored the long file: the signature
\* or the end of the file is missing.
TornImages ==
  {[Image(long) EXCEPT !["sig"] = IF signed THEN long ELSE Blank,
                       !["front"] = IF front THEN long ELSE Blank,
                       !["rest"] = IF rest THEN long ELSE Blank] :
     signed \in BOOLEAN, front \in BOOLEAN, rest \in BOOLEAN}

NoImages == {}

AllImages ==
  WholeImages \cup {[Image(empty) EXCEPT !["sig"] = Blank]}
  \cup {image \in TornImages : image["rest"] # Blank => image["front"] # Blank}

\* The hypothesis of PeersHoldTheSame is true of the images given to the peers.
ASSUME AllImagesAssumption == ClosedUnderResets(AllImages)
=============================================================================
