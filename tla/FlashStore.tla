----------------------------- MODULE FlashStore -----------------------------
(***************************************************************************)
(* The slots and the file address table (FAT) in flash, as the write and   *)
(* receive commands change them: a sequence of flash commands, each one    *)
(* sector erase or one program, between any two of which the device may    *)
(* reset.  The queries (list, interrogate, listen, read) each look at a    *)
(* different part of a slot.                                               *)
(*                                                                         *)
(* A slot is its fields in address order (file.h:44-109): uuid, group_id   *)
(* and file_size, of which the last two are decided by one flash word      *)
(* each; "sig", the rest of the metadata and its signature; the file's     *)
(* bytes that share the first sector ("front"), those in later ones        *)
(* ("rest").  A field's words are programmed in one step.                  *)
(* Operators marked "Fault" are wrong variants no specification uses.      *)
(***************************************************************************)
EXTENDS Naturals, Sequences

CONSTANTS NUM_SLOTS,
          Files,        \* contents with their metadata, as signed by a writer
          DataOf,       \* the fields a file's bytes take up: {}, {"front"} or both
          PeerImages,   \* slot images a listening HSM may send
          Blank, Mixed, \* an erased field; one programmed twice without an erase
          Resets        \* whether the device may reset between flash commands

Slots    == 0 .. NUM_SLOTS - 1
Accepted == 0 .. NUM_SLOTS        \* slot numbers that pass the commands' check
Metadata == <<"uuid", "group", "size", "sig">>
Data     == <<"front", "rest">>
Commands == {"write", "receive"}
Fields   == {"uuid", "group", "size", "sig", "front", "rest"}

ASSUME FlashAssumption ==
  /\ NUM_SLOTS \in Nat \ {0}
  /\ DataOf \in [Files -> {{}, {"front"}, {"front", "rest"}}]
  /\ Blank \notin Files /\ Mixed \notin Files /\ Blank # Mixed
  /\ PeerImages \subseteq [Fields -> Files \cup {Blank}]
  /\ Resets \in BOOLEAN

\* There is a file to store, and no peer sends an image that combines two: it runs
\* this firmware, of which NoMix shows that.
ASSUME PeerAssumption ==
  /\ Files # {}
  /\ \A image \in PeerImages : \E f \in Files : \A a \in Fields : image[a] \in {f, Blank}

VARIABLES slots,   \* flash: the image in each slot
          fat,     \* flash: the two words of the uuid in each FAT entry
          todo,    \* flash commands the running command has still to issue
          job,     \* what it stores where, and which command it is
          stored,  \* history: image last reported stored in a slot, if not given up
          cutOff   \* history: commands a reset has cut off so far, here or (as
                   \* a torn image received from it shows) at a "peer"

flashVars == <<slots, fat, todo, job, stored, cutOff>>

NoImage == [a \in Fields |-> Blank]
Image(f) == [a \in Fields |-> IF a \in {"front", "rest"} \ DataOf[f] THEN Blank ELSE f]

FlashInit ==
  /\ slots = [s \in Accepted |-> NoImage]
  /\ fat = [s \in Slots |-> <<Blank, Blank>>]
  /\ todo = <<>> /\ job = [by |-> "write", slot |-> 0, image |-> NoImage]
  /\ stored = [s \in Accepted |-> NoImage] /\ cutOff = {}

-----------------------------------------------------------------------------
(* The flash commands each operation issues, in order. *)

Erase(fields) == [do |-> "erase", fields |-> fields]
\* Fault: the loop stops one short.
Program_offByOne(image, order) ==
  [i \in 1 .. Len(order) - 1 |->
     [do |-> "program", field |-> order[i], value |-> image[order[i]]]]

Program(image, order) ==
  [i \in 1 .. Len(order) |-> [do |-> "program", field |-> order[i], value |-> image[order[i]]]]

\* Fault: only the first sector is erased.
EraseSlot_firstSector == <<Erase(Fields \ {"rest"})>>

\* Sector by sector: the first one holds the metadata and the file's beginning.
EraseSlot == <<Erase(Fields \ {"rest"}), Erase({"rest"})>>

\* Fault: the table is programmed without an erase.
WriteFat_noErase(table) ==
  [i \in 1 .. 2 * NUM_SLOTS |->
     LET s == (i - 1) \div 2  w == ((i - 1) % 2) + 1
     IN  [do |-> "programFat", slot |-> s, word |-> w, value |-> table[s][w]]]

\* file_write_fat: erase the table, then program every entry word by word.  An
\* entry beyond the table exists in RAM only (the struct is padded to a sector).
WriteFat(table) ==
  <<[do |-> "eraseFat"]>> \o
  [i \in 1 .. 2 * NUM_SLOTS |->
     LET s == (i - 1) \div 2  w == ((i - 1) % 2) + 1
     IN  [do |-> "programFat", slot |-> s, word |-> w, value |-> table[s][w]]]

\* Fault: file_read_fat forgotten.
UpdateFat_unread(s, image) ==
  WriteFat([[t \in Slots |-> <<Blank, Blank>>] EXCEPT ![s] = <<image["uuid"], image["uuid"]>>])

\* file_read_fat, then the entry of slot s is replaced.
UpdateFat(s, image) == WriteFat([fat EXCEPT ![s] = <<image["uuid"], image["uuid"]>>])

\* Fault: the FAT is written before the slot is erased.
WritePlan_fatFirst(s, f) ==
  UpdateFat(s, Image(f)) \o EraseSlot \o Program(Image(f), Data) \o Program(Image(f), Metadata)

\* write.c: erase, FAT, file bytes, and the metadata last.
WritePlan(s, f) ==
  EraseSlot \o UpdateFat(s, Image(f)) \o Program(Image(f), Data) \o Program(Image(f), Metadata)

\* Fault: the file's bytes are programmed from the end.
ReceivePlan_backwards(s, image) ==
  UpdateFat(s, image) \o EraseSlot \o Program(image, Metadata \o <<"rest", "front">>)

\* receive.c: FAT, erase, and then the whole image in address order.
ReceivePlan(s, image) ==
  UpdateFat(s, image) \o EraseSlot \o Program(image, Metadata \o Data)

-----------------------------------------------------------------------------
Begin(by, s, image, plan) ==
  /\ todo = <<>>
  /\ todo' = plan /\ job' = [by |-> by, slot |-> s, image |-> image]
  /\ stored' = [stored EXCEPT ![s] = NoImage]
  /\ cutOff' = cutOff \cup (IF image \in {Image(f) : f \in Files} THEN {} ELSE {"peer"})
  /\ UNCHANGED <<slots, fat>>

WriteFile(s, f) == Begin("write", s, Image(f), WritePlan(s, f))

ReceiveFile(s, image) == Begin("receive", s, image, ReceivePlan(s, image))

\* Programming can only clear bits: a blank field takes the value, and blank
\* data changes nothing.
Burn(old, new) == IF old = Blank THEN new ELSE IF new = Blank THEN old ELSE Mixed

\* What one flash command does to the addressed slot, and to the FAT.
OnSlot(c, image) ==
  CASE c.do = "erase"   -> [a \in Fields |-> IF a \in c.fields THEN Blank ELSE image[a]]
    [] c.do = "program" -> [image EXCEPT ![c.field] = Burn(@, c.value)]
    [] OTHER            -> image

OnFat(c) ==
  CASE c.do = "eraseFat"   -> [s \in Slots |-> <<Blank, Blank>>]
    [] c.do = "programFat" -> [fat EXCEPT ![c.slot][c.word] = Burn(@, c.value)]
    [] OTHER               -> fat

\* Fault: the erase loop runs one sector too far, into the next slot.
FlashStep_erasesTooFar ==
  LET c == Head(todo) IN
  /\ todo # <<>>
  /\ slots' = [s \in Accepted |->
                 IF s = job.slot THEN OnSlot(c, slots[s])
                 ELSE IF s = job.slot + 1 /\ c = Erase({"rest"})
                      THEN OnSlot(Erase(Fields \ {"rest"}), slots[s]) ELSE slots[s]]
  /\ fat' = OnFat(c)
  /\ todo' = Tail(todo)
  /\ stored' = IF Len(todo) = 1 THEN [stored EXCEPT ![job.slot] = job.image] ELSE stored
  /\ UNCHANGED <<job, cutOff>>

\* Issue the next flash command and wait for it; after the last one the command
\* reports success.
FlashStep ==
  /\ todo # <<>>
  /\ slots' = [slots EXCEPT ![job.slot] = OnSlot(Head(todo), @)]
  /\ fat' = OnFat(Head(todo))
  /\ todo' = Tail(todo)
  /\ stored' = IF Len(todo) = 1 THEN [stored EXCEPT ![job.slot] = job.image] ELSE stored
  /\ UNCHANGED <<job, cutOff>>

\* Flash survives, the command does not.
FlashReset ==
  /\ Resets
  /\ todo # <<>>
  /\ todo' = <<>> /\ cutOff' = cutOff \cup {job.by}
  /\ UNCHANGED <<slots, fat, job, stored>>

FlashNext ==
  \/ \E s \in Accepted : \/ \E f \in Files : WriteFile(s, f)
                         \/ \E image \in PeerImages : ReceiveFile(s, image)
  \/ FlashStep
  \/ FlashReset

FlashSpec == FlashInit /\ [][FlashNext]_flashVars

-----------------------------------------------------------------------------
(* What the queries make of a slot.  An erased size or group id is 0xFFFF. *)

\* list.c: the size is at most MAX_FILE_SIZE.
Listed(s) == s \in Slots /\ slots[s]["size"] # Blank

\* listen.c, interrogate: the group id is one of the asking HSM's.
Offered(s) == s \in Slots /\ slots[s]["group"] # Blank

\* listen.c, receive: size and group id.
Sendable(image) == image["size"] # Blank /\ image["group"] # Blank

\* read.c: group, size, signature of the metadata, and tag of the data.
ReadResult(image) ==
  LET Reads(f) == \A a \in {"uuid", "group", "size", "sig"} \cup DataOf[f] : image[a] = f
  IN  IF \E f \in Files : Reads(f) THEN CHOOSE f \in Files : Reads(f) ELSE Blank

-----------------------------------------------------------------------------
(* Properties. *)

\* Types; and no field or FAT word is ever programmed twice without an erase
\* between (the controller writes the ECC with each flash word).
FlashTypeOK ==
  /\ slots \in [Accepted -> [Fields -> Files \cup {Blank}]]
  /\ fat \in [Slots -> (Files \cup {Blank}) \X (Files \cup {Blank})]
  /\ job \in [by : Commands, slot : Accepted, image : [Fields -> Files \cup {Blank}]]
  /\ stored \in [Accepted -> [Fields -> Files \cup {Blank}]]
  /\ cutOff \subseteq Commands \cup {"peer"}

\* However often the device resets in the middle of a command, no slot ever
\* combines fields of two files: sectors are erased before a field of the next
\* file is programmed, and no field is programmed twice.
NoMix == \A s \in Accepted : \E f \in Files : \A a \in Fields : slots[s][a] \in {f, Blank}

\* What was reported stored stays in flash, field by field, until a command for
\* the same slot begins, whatever happens to commands for other slots.
SuccessIsDurable ==
  \A s \in Accepted : stored[s] # NoImage => slots[s] = stored[s]

\* Slots read as whole files or not at all, and
\* a command changes what no other slot reads as, wherever a reset cuts it off.
Store == INSTANCE FileStore WITH
  Slots <- Accepted, NoFile <- Blank,
  contents <- [s \in Accepted |-> ReadResult(slots[s])],
  pending <- IF todo = <<>> THEN <<>> ELSE <<job.slot, ReadResult(job.image)>>

ImplementsFileStore == Store!Spec

\* The images assumed of a listening peer are those this HSM could itself send,
\* after any number of resets: peers run the same firmware.
PeersAreAlike == \A s \in Accepted : Sendable(slots[s]) => slots[s] \in PeerImages

\* A set of images that holds every file and what resets leave of its images where the
\* size is programmed: a file written without its signature (write.c:257-263),
\* one received without the fields after the size (receive.c:171-178).
Kept(image, fields) == [a \in Fields |-> IF a \in fields THEN image[a] ELSE Blank]
ClosedUnderResets(images) ==
  /\ \A f \in Files : {Image(f), Kept(Image(f), Fields \ {"sig"})} \subseteq images
  /\ \A image \in images, lost \in {{}, {"rest"}, {"front", "rest"}, {"sig", "front", "rest"}} :
       Kept(image, Fields \ lost) \in images

\* As long as no command was cut off, here or at a peer, the four queries and the FAT agree about
\* every slot between commands: what list shows can be read, interrogate offers
\* the same slots, and the FAT names exactly the files in the slots.
QueriesAgree ==
  todo = <<>> /\ cutOff = {} =>
    \A s \in Slots : /\ Listed(s) <=> ReadResult(slots[s]) # Blank
                     /\ Listed(s) <=> Offered(s)
                     /\ fat[s] = <<slots[s]["uuid"], slots[s]["uuid"]>>

\* A FAT word that is programmed is never the uuid of another file than the one in the slot.
NamesItsFile ==
  \A s \in Slots, w \in {1, 2} :
    fat[s][w] \in {slots[s]["uuid"], Blank} \/ slots[s]["uuid"] = Blank

\* file.h:11, "UUID of the file in that slot": between commands, also after one that was
\* cut off, no FAT entry names a file its slot does not hold.
FatNeverMisnames == todo = <<>> => NamesItsFile

\* Only a receive makes the FAT misname a file, while it runs or after a reset
\* cut one off: a write, cut off anywhere, takes the old file away first.
WritesNeverMisname ==
  "receive" \notin cutOff /\ (todo = <<>> \/ job.by = "write") => NamesItsFile

\* list.c:10-12, "we know a file exists in that slot" of a slot whose size is in
\* range: what list shows can be read.
ListedIsReadable == todo = <<>> => \A s \in Slots : Listed(s) => ReadResult(slots[s]) # Blank

\* constants.h:11, "Number of file slots available": files go into those slots.
StoredInSlots == \A s \in Accepted : stored[s] # NoImage => s \in Slots
=============================================================================
