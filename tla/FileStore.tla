----------------------------- MODULE FileStore -----------------------------
(***************************************************************************)
(* What the flash file store promises to readers: a slot reads as one      *)
(* whole file or as nothing.  A replacement gives the old file of its slot *)
(* up, and later its own file may appear there, at once; no other slot     *)
(* ever changes.  A reset only ends the replacement under way.  FlashStore *)
(* implements this.                                                        *)
(***************************************************************************)
CONSTANTS Slots, Files, NoFile

VARIABLES contents,   \* what reading each slot yields
          pending     \* the replacement under way, <<slot, file>>, or <<>>

vars == <<contents, pending>>

Init == contents \in [Slots -> Files \cup {NoFile}] /\ pending = <<>>

\* A damaged image may be stored too: it will never appear as a file.
Replace(s, f) ==
  /\ pending = <<>>
  /\ pending' = <<s, f>>
  /\ UNCHANGED contents

End == pending' = <<>> /\ UNCHANGED contents

\* The last change may end the replacement.
Change(s, f) ==
  /\ contents' = [contents EXCEPT ![s] = f]
  /\ pending' \in {pending, <<>>}

GiveUp == pending # <<>> /\ Change(pending[1], NoFile)

Appear ==
  /\ pending # <<>> /\ pending[2] # NoFile
  /\ contents[pending[1]] = NoFile
  /\ Change(pending[1], pending[2])

Next == GiveUp \/ Appear \/ End \/ \E s \in Slots, f \in Files \cup {NoFile} : Replace(s, f)

Spec == Init /\ [][Next]_vars
=============================================================================
