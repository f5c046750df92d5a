--------------------------- MODULE FlashStoreProofs ---------------------------
(***************************************************************************)
(* Flash, for any number of slots, files and peer images, with a reset     *)
(* between any two flash commands.  The invariant says what the commands   *)
(* still to come mean for what is in flash now: a field whose program is   *)
(* still to come is blank, one whose program is over holds its value, and  *)
(* the same for the words of the FAT (Fresh, TableKept).  At the end: what *)
(* this HSM sends is what peers that run the same firmware may send        *)
(* (PeerInv).                                                              *)
(***************************************************************************)
EXTENDS FlashStore, SequenceTheorems, TLAPS

FirstSector == Erase(Fields \ {"rest"})
LaterSectors == Erase({"rest"})
EraseTable == [do |-> "eraseFat"]
Field(a, image) == [do |-> "program", field |-> a, value |-> image[a]]
Entry(s, w, v) == [do |-> "programFat", slot |-> s, word |-> w, value |-> v]

Contents == Files \cup {Blank}
Images == [Fields -> Contents]

\* The flash commands a command that stores this image may issue.
Steps(image) ==
  {FirstSector, LaterSectors, EraseTable} \cup {Field(a, image) : a \in Fields}
  \cup {Entry(s, w, v) : s \in Slots, w \in {1, 2}, v \in Contents}

\* The order of write.c, and of receive.c.
Rank(by, c) ==
  IF c.do = "erase" THEN (IF by = "write" THEN 0 ELSE 2) + (IF c.fields = {"rest"} THEN 1 ELSE 0)
  ELSE IF c.do = "eraseFat" THEN (IF by = "write" THEN 2 ELSE 0)
  ELSE IF c.do = "programFat" THEN (IF by = "write" THEN 3 ELSE 1)
  ELSE IF by = "write" /\ c.field \notin {"front", "rest"} THEN 5 ELSE 4

\* In order, and each flash command once.
Tidy(by, plan) ==
  \A i, j \in 1 .. Len(plan) :
    i < j => Rank(by, plan[i]) <= Rank(by, plan[j]) /\ plan[i] # plan[j]

Elements(plan) == {plan[i] : i \in 1 .. Len(plan)}
Left == Elements(todo)

\* A FAT word that may be programmed for slot s while the command for job.slot runs, or be
\* found there after it.
Proper(s, v) ==
  IF s = job.slot THEN v = job.image["uuid"]
  ELSE /\ "receive" \notin cutOff => v \in {slots[s]["uuid"], Blank} \/ slots[s]["uuid"] = Blank
       /\ cutOff = {} => v = slots[s]["uuid"]

\* What is still to come.
Remaining ==
  /\ todo \in Seq(Steps(job.image)) /\ Tidy(job.by, todo)
  /\ \A s \in Slots, w \in {1, 2}, v \in Contents : Entry(s, w, v) \in Left => Proper(s, v)
  /\ \A s \in Slots, w \in {1, 2}, u, v \in Contents :
       Entry(s, w, u) \in Left /\ Entry(s, w, v) \in Left => u = v
  /\ FirstSector \in Left => LaterSectors \in Left
  /\ (\E c \in Left : c.do # "program") => \A a \in Fields : Field(a, job.image) \in Left
  /\ EraseTable \in Left =>
       \A s \in Slots, w \in {1, 2} : \E v \in Contents : Entry(s, w, v) \in Left

\* What is over.
Fresh ==
  LET slot == slots[job.slot] IN
  /\ FirstSector \notin Left /\ LaterSectors \in Left =>
       \A a \in Fields \ {"rest"} : slot[a] = Blank
  /\ LaterSectors \notin Left =>
       \A a \in Fields : slot[a] = IF Field(a, job.image) \in Left THEN Blank ELSE job.image[a]

TableFresh ==
  EraseTable \notin Left =>
    \A s \in Slots, w \in {1, 2} :
      IF \E v \in Contents : Entry(s, w, v) \in Left THEN fat[s][w] = Blank
      ELSE Proper(s, fat[s][w])

\* No slot but the one a receive is replacing is misnamed, and nothing disagrees if no
\* command was ever cut off.
TableKept ==
  \A s \in Slots, w \in {1, 2} :
    /\ "receive" \notin cutOff /\ (todo = <<>> \/ s # job.slot \/ job.by = "write") =>
         fat[s][w] \in {slots[s]["uuid"], Blank} \/ slots[s]["uuid"] = Blank
    /\ cutOff = {} /\ (todo = <<>> \/ (s # job.slot /\ EraseTable \in Left)) =>
         fat[s][w] = slots[s]["uuid"]

OneFile(image) == \E f \in Files : \A a \in Fields : image[a] \in {f, Blank}
Complete(image) == image = NoImage \/ \E f \in Files : image = Image(f)

ImagesKept ==
  /\ NoMix /\ OneFile(job.image)
  /\ cutOff = {} => /\ todo # <<>> => Complete(job.image)
                    /\ \A s \in Accepted : todo = <<>> \/ s # job.slot => Complete(slots[s])

Reported ==
  /\ SuccessIsDurable
  /\ todo # <<>> => stored[job.slot] = NoImage

FlashInv ==
  /\ FlashTypeOK /\ ImagesKept /\ Reported /\ TableKept
  /\ todo \in Seq(Steps(job.image))
  /\ todo # <<>> => Remaining /\ Fresh /\ TableFresh
-----------------------------------------------------------------------------
(* The plans. *)

LEMMA ElementsConcat ==
  ASSUME NEW S, NEW p \in Seq(S), NEW q \in Seq(S)
  PROVE  p \o q \in Seq(S) /\ Elements(p \o q) = Elements(p) \cup Elements(q)
<1>1. /\ p \o q \in Seq(S) /\ Len(p \o q) = Len(p) + Len(q)
      /\ Len(p) \in Nat /\ Len(q) \in Nat
      /\ \A i \in 1 .. Len(p) + Len(q) :
           (p \o q)[i] = IF i <= Len(p) THEN p[i] ELSE q[i - Len(p)]
  BY ConcatProperties, LenProperties
<1>2. ASSUME NEW c \in Elements(p \o q) PROVE c \in Elements(p) \cup Elements(q)
  <2>1. PICK i \in 1 .. Len(p) + Len(q) : c = (p \o q)[i]
    BY <1>1 DEF Elements
  <2>2. CASE i <= Len(p)
    BY <1>1, <2>1, <2>2 DEF Elements
  <2>3. CASE i > Len(p)
    <3>1. i - Len(p) \in 1 .. Len(q) /\ c = q[i - Len(p)]
      BY <1>1, <2>1, <2>3
    <3> QED
      BY <3>1 DEF Elements
  <2> QED
    BY <1>1, <2>2, <2>3
<1>3. ASSUME NEW c \in Elements(p) PROVE c \in Elements(p \o q)
  <2>1. PICK i \in 1 .. Len(p) : c = p[i]
    BY DEF Elements
  <2>2. i \in 1 .. Len(p \o q) /\ c = (p \o q)[i]
    BY <1>1, <2>1
  <2> QED
    BY <2>2 DEF Elements
<1>4. ASSUME NEW c \in Elements(q) PROVE c \in Elements(p \o q)
  <2>1. PICK i \in 1 .. Len(q) : c = q[i]
    BY DEF Elements
  <2>2. i + Len(p) \in 1 .. Len(p \o q) /\ c = (p \o q)[i + Len(p)]
    BY <1>1, <2>1
  <2> QED
    BY <2>2 DEF Elements
<1> QED
  BY <1>1, <1>2, <1>3, <1>4

\* Tidy plans of lower and of higher rank make a tidy one.
LEMMA TidyConcat ==
  ASSUME NEW S, NEW p \in Seq(S), NEW q \in Seq(S), NEW by, NEW rank \in Int,
         Tidy(by, p), Tidy(by, q),
         \A c \in Elements(p) : Rank(by, c) \in Int /\ Rank(by, c) < rank,
         \A c \in Elements(q) : Rank(by, c) \in Int /\ rank <= Rank(by, c)
  PROVE  Tidy(by, p \o q)
<1>1. /\ Len(p \o q) = Len(p) + Len(q) /\ Len(p) \in Nat /\ Len(q) \in Nat
      /\ \A i \in 1 .. Len(p) + Len(q) :
           (p \o q)[i] = IF i <= Len(p) THEN p[i] ELSE q[i - Len(p)]
  BY ConcatProperties, LenProperties
<1> SUFFICES ASSUME NEW i \in 1 .. Len(p \o q), NEW j \in 1 .. Len(p \o q), i < j
             PROVE  LET c == (p \o q)[i]  d == (p \o q)[j]
                    IN  Rank(by, c) <= Rank(by, d) /\ c # d
  BY DEF Tidy
<1>2. CASE j <= Len(p)
  BY <1>1, <1>2 DEF Tidy
<1>3. CASE i > Len(p)
  <2>1. /\ i - Len(p) \in 1 .. Len(q) /\ j - Len(p) \in 1 .. Len(q) /\ i - Len(p) < j - Len(p)
        /\ (p \o q)[i] = q[i - Len(p)] /\ (p \o q)[j] = q[j - Len(p)]
    BY <1>1, <1>3
  <2> QED
    BY <2>1 DEF Tidy
<1>4. CASE i <= Len(p) /\ Len(p) < j
  <2>1. /\ i \in 1 .. Len(p) /\ j - Len(p) \in 1 .. Len(q)
        /\ (p \o q)[i] = p[i] /\ (p \o q)[j] = q[j - Len(p)]
    BY <1>1, <1>4
  <2>2. (p \o q)[i] \in Elements(p) /\ (p \o q)[j] \in Elements(q)
    BY <2>1 DEF Elements
  <2> QED
    BY <2>2
<1> QED
  BY <1>1, <1>2, <1>3, <1>4

Tables == [Slots -> Contents \X Contents]

LEMMA SlotBound == NUM_SLOTS \in Nat \ {0} /\ Slots = 0 .. NUM_SLOTS - 1 /\ Accepted = 0 .. NUM_SLOTS
BY FlashAssumption DEF Slots, Accepted

LEMMA EraseSlotPlan ==
  ASSUME NEW image
  PROVE  /\ EraseSlot \in Seq(Steps(image)) /\ Len(EraseSlot) = 2
         /\ Elements(EraseSlot) = {FirstSector, LaterSectors}
         /\ EraseSlot[1] = FirstSector /\ EraseSlot[2] = LaterSectors
<1>1. EraseSlot = <<FirstSector, LaterSectors>>
  BY DEF EraseSlot, FirstSector, LaterSectors
<1>2. FirstSector \in Steps(image) /\ LaterSectors \in Steps(image)
  BY DEF Steps
<1> HIDE DEF FirstSector, LaterSectors
<1>3. EraseSlot \in Seq(Steps(image)) /\ Len(EraseSlot) = 2
      /\ EraseSlot[1] = FirstSector /\ EraseSlot[2] = LaterSectors
  BY <1>1, <1>2
<1> QED
  BY <1>3 DEF Elements

\* The table's entries, word by word.
TableEntry(table, i) ==
  Entry((i - 1) \div 2, ((i - 1) % 2) + 1, table[(i - 1) \div 2][((i - 1) % 2) + 1])

LEMMA WordIndex ==
  ASSUME NEW i \in 1 .. 2 * NUM_SLOTS
  PROVE  (i - 1) \div 2 \in Slots /\ ((i - 1) % 2) + 1 \in {1, 2}
BY SlotBound

LEMMA Prepend ==
  ASSUME NEW S, NEW x \in S, NEW t \in Seq(S), NEW n \in Nat, Len(t) = n
  PROVE  LET p == <<x>> \o t
         IN  /\ p \in Seq(S) /\ Len(p) = 1 + n /\ p[1] = x
             /\ \A i \in 1 .. n : p[i + 1] = t[i]
<1> DEFINE e == <<x>>  p == e \o t
<1>1. e \in Seq(S) /\ Len(e) = 1 /\ e[1] = x
  OBVIOUS
<1> HIDE DEF e
<1>2. /\ p \in Seq(S) /\ Len(p) = 1 + n
      /\ \A i \in 1 .. 1 + n : p[i] = IF i <= 1 THEN e[i] ELSE t[i - 1]
  <2>1. /\ p \in Seq(S) /\ Len(p) = Len(e) + Len(t)
        /\ \A i \in 1 .. Len(e) + Len(t) : p[i] = IF i <= Len(e) THEN e[i] ELSE t[i - Len(e)]
    BY <1>1, ConcatProperties, Zenon
  <2> QED
    BY <1>1, <2>1, Zenon
<1> HIDE DEF p
<1>3. p[1] = x
  BY <1>1, <1>2
<1>4. ASSUME NEW i \in 1 .. n PROVE p[i + 1] = t[i]
  <2>1. i + 1 \in 1 .. 1 + n /\ ~(i + 1 <= 1) /\ (i + 1) - 1 = i
    OBVIOUS
  <2> QED
    BY <1>2, <2>1
<1> QED
  BY <1>2, <1>3, <1>4 DEF p, e

LEMMA WriteFatPlan ==
  ASSUME NEW image, NEW table \in Tables
  PROVE  /\ WriteFat(table) \in Seq(Steps(image))
         /\ Len(WriteFat(table)) = 1 + 2 * NUM_SLOTS /\ WriteFat(table)[1] = EraseTable
         /\ \A i \in 1 .. 2 * NUM_SLOTS : WriteFat(table)[i + 1] = TableEntry(table, i)
         /\ Elements(WriteFat(table)) = {EraseTable}
              \cup {Entry(s, w, table[s][w]) : s \in Slots, w \in {1, 2}}
<1> DEFINE N == NUM_SLOTS  e == <<EraseTable>>  t == [i \in 1 .. 2 * N |-> TableEntry(table, i)]
           p == WriteFat(table)
<1>1. p = e \o t
  BY DEF WriteFat, TableEntry, Entry, EraseTable
<1>2. 2 * N \in Nat
  BY SlotBound
<1>3. EraseTable \in Steps(image)
  BY DEF Steps
<1>4. \A i \in 1 .. 2 * N : TableEntry(table, i) \in Steps(image)
  <2> SUFFICES ASSUME NEW i \in 1 .. 2 * N PROVE TableEntry(table, i) \in Steps(image)
    OBVIOUS
  <2> DEFINE s == (i - 1) \div 2  w == ((i - 1) % 2) + 1
  <2>1. s \in Slots /\ w \in {1, 2}
    BY WordIndex
  <2> HIDE DEF s, w
  <2>2. table[s][w] \in Contents
    BY <2>1 DEF Tables
  <2>3. Entry(s, w, table[s][w]) \in Steps(image)
    BY <2>1, <2>2 DEF Steps
  <2> QED
    BY <2>3 DEF TableEntry, s, w
<1>5. t \in Seq(Steps(image)) /\ Len(t) = 2 * N
  BY <1>2, <1>4
<1>6. /\ p \in Seq(Steps(image)) /\ Len(p) = 1 + 2 * N /\ p[1] = EraseTable
      /\ \A i \in 1 .. 2 * N : p[i + 1] = t[i]
  <2> HIDE DEF t
  <2> DEFINE n == 2 * N
  <2>1. n \in Nat /\ Len(t) = n
    BY <1>2, <1>5
  <2> HIDE DEF n, p
  <2>2. /\ p \in Seq(Steps(image)) /\ Len(p) = 1 + n /\ p[1] = EraseTable
        /\ \A i \in 1 .. n : p[i + 1] = t[i]
    BY <1>1, <1>3, <1>5, <2>1, Prepend
  <2> QED
    BY <2>2 DEF n
<1>7. p[1] = EraseTable /\ \A i \in 1 .. 2 * N : p[i + 1] = TableEntry(table, i)
  BY <1>6
<1> HIDE DEF p, t
<1>8. Elements(p) = {EraseTable} \cup {Entry(s, w, table[s][w]) : s \in Slots, w \in {1, 2}}
  <2>1. ASSUME NEW i \in 1 .. 1 + 2 * N
        PROVE  p[i] \in {EraseTable} \cup {Entry(s, w, table[s][w]) : s \in Slots, w \in {1, 2}}
    <3>1. CASE i = 1
      BY <1>7, <3>1
    <3>2. CASE i # 1
      <4>1. i - 1 \in 1 .. 2 * N /\ (i - 1) + 1 = i
        BY <1>2, <3>2
      <4>2. p[i] = TableEntry(table, i - 1)
        BY <1>7, <4>1
      <4> QED
        BY <4>1, <4>2, WordIndex DEF TableEntry
    <3> QED
      BY <3>1, <3>2
  <2>2. EraseTable \in Elements(p)
    BY <1>2, <1>6, <1>7 DEF Elements
  <2>3. ASSUME NEW s \in Slots, NEW w \in {1, 2} PROVE Entry(s, w, table[s][w]) \in Elements(p)
    <3> DEFINE i == 2 * s + w
    <3>1. i \in 1 .. 2 * N /\ (i - 1) \div 2 = s /\ ((i - 1) % 2) + 1 = w /\ i + 1 \in 1 .. 1 + 2 * N
      BY SlotBound
    <3>2. p[i + 1] = Entry(s, w, table[s][w])
      BY <1>7, <3>1 DEF TableEntry
    <3> QED
      BY <1>6, <3>1, <3>2 DEF Elements
  <2> DEFINE E == {EraseTable} \cup {Entry(s, w, table[s][w]) : s \in Slots, w \in {1, 2}}
  <2>4. Elements(p) \subseteq E
    <3>1. \A i \in 1 .. 1 + 2 * N : p[i] \in E
      BY <2>1
    <3> HIDE DEF E
    <3> QED
      BY <1>6, <3>1 DEF Elements
  <2>5. E \subseteq Elements(p)
    BY <2>2, <2>3
  <2> HIDE DEF E
  <2>6. Elements(p) = E
    BY <2>4, <2>5
  <2> QED
    BY <2>6 DEF E
<1> QED
  BY <1>6, <1>7, <1>8 DEF p

LEMMA Ranks ==
  ASSUME NEW by \in Commands, NEW image
  PROVE  LET w == by = "write" IN
         /\ Rank(by, FirstSector) = IF w THEN 0 ELSE 2
         /\ Rank(by, LaterSectors) = IF w THEN 1 ELSE 3
         /\ Rank(by, EraseTable) = IF w THEN 2 ELSE 0
         /\ \A s, v, x : Rank(by, Entry(s, x, v)) = IF w THEN 3 ELSE 1
         /\ \A a : Rank(by, Field(a, image)) = IF w /\ a \notin {"front", "rest"} THEN 5 ELSE 4
<1>1. Fields \ {"rest"} # {"rest"}
  BY DEF Fields
<1>2. /\ FirstSector.do = "erase" /\ FirstSector.fields # {"rest"}
      /\ LaterSectors.do = "erase" /\ LaterSectors.fields = {"rest"} /\ EraseTable.do = "eraseFat"
  BY <1>1 DEF FirstSector, LaterSectors, EraseTable, Erase
<1>3. /\ \A s, v, x : Entry(s, x, v).do = "programFat"
      /\ \A a : Field(a, image).do = "program" /\ Field(a, image).field = a
  BY DEF Entry, Field
<1> QED
  BY <1>2, <1>3 DEF Rank

LEMMA EraseSlotTidy == ASSUME NEW by \in Commands PROVE Tidy(by, EraseSlot)
<1>1. Rank(by, EraseSlot[1]) <= Rank(by, EraseSlot[2]) /\ EraseSlot[1] # EraseSlot[2]
  BY Ranks, EraseSlotPlan
<1>2. Len(EraseSlot) = 2
  BY EraseSlotPlan
<1>3. \A i, j \in 1 .. 2 : i < j => i = 1 /\ j = 2
  OBVIOUS
<1> QED
  BY <1>1, <1>2, <1>3 DEF Tidy

LEMMA WriteFatTidy ==
  ASSUME NEW by \in Commands, NEW table \in Tables
  PROVE  Tidy(by, WriteFat(table))
<1> DEFINE p == WriteFat(table)  N == NUM_SLOTS
<1>1. /\ Len(p) = 1 + 2 * N /\ p[1] = EraseTable /\ N \in Nat
      /\ \A i \in 1 .. 2 * N : p[i + 1] = TableEntry(table, i)
  <2>1. p \in Seq(Steps(NoImage)) /\ Len(p) = 1 + 2 * N /\ p[1] = EraseTable
        /\ \A i \in 1 .. 2 * N : p[i + 1] = TableEntry(table, i)
    <3>1. p \in Seq(Steps(NoImage))
      BY WriteFatPlan
    <3>2. Len(p) = 1 + 2 * N
      BY WriteFatPlan
    <3>3. p[1] = EraseTable
      BY WriteFatPlan
    <3>4. \A i \in 1 .. 2 * N : p[i + 1] = TableEntry(table, i)
      BY WriteFatPlan
    <3> QED
      BY <3>1, <3>2, <3>3, <3>4
  <2> QED
    BY <2>1, SlotBound
<1> HIDE DEF p
<1> SUFFICES ASSUME NEW i \in 1 .. 1 + 2 * N, NEW j \in 1 .. 1 + 2 * N, i < j
             PROVE  Rank(by, p[i]) <= Rank(by, p[j]) /\ p[i] # p[j]
  BY <1>1 DEF Tidy, p
<1>2. j - 1 \in 1 .. 2 * N /\ p[j] = TableEntry(table, j - 1)
  <2>1. j - 1 \in 1 .. 2 * N /\ (j - 1) + 1 = j
    BY <1>1
  <2> QED
    BY <1>1, <2>1
<1>3. CASE i = 1
  <2>1. p[j].do = "programFat" /\ p[i].do = "eraseFat"
    BY <1>1, <1>2, <1>3 DEF TableEntry, Entry, EraseTable
  <2> QED
    BY <2>1 DEF Rank
<1>4. CASE i # 1
  <2>1. i - 1 \in 1 .. 2 * N /\ p[i] = TableEntry(table, i - 1)
    <3>1. i - 1 \in 1 .. 2 * N /\ (i - 1) + 1 = i
      BY <1>1, <1>4
    <3> QED
      BY <1>1, <3>1
  <2>2. /\ p[i].do = "programFat" /\ p[j].do = "programFat"
        /\ p[i].slot = (i - 1 - 1) \div 2 /\ p[i].word = ((i - 1 - 1) % 2) + 1
        /\ p[j].slot = (j - 1 - 1) \div 2 /\ p[j].word = ((j - 1 - 1) % 2) + 1
    BY <1>2, <2>1 DEF TableEntry, Entry
  <2>3. \/ (i - 1 - 1) \div 2 # (j - 1 - 1) \div 2
        \/ ((i - 1 - 1) % 2) + 1 # ((j - 1 - 1) % 2) + 1
    BY <1>1
  <2> QED
    BY <2>2, <2>3 DEF Rank
<1> QED
  BY <1>3, <1>4

LEMMA ProgramPlan ==
  ASSUME NEW by \in Commands, NEW image, NEW order \in Seq(Fields), NEW rank \in Int,
         \A i, j \in 1 .. Len(order) : i < j => order[i] # order[j],
         \A a \in Elements(order) : Rank(by, Field(a, image)) = rank
  PROVE  LET p == Program(image, order)
         IN  /\ p \in Seq(Steps(image)) /\ Tidy(by, p)
             /\ Elements(p) = {Field(a, image) : a \in Elements(order)}
<1> DEFINE n == Len(order)  p == [i \in 1 .. n |-> Field(order[i], image)]
<1>1. Program(image, order) = p
  BY DEF Program, Field
<1>2. n \in Nat /\ \A i \in 1 .. n : order[i] \in Fields
  OBVIOUS
<1>3. \A i \in 1 .. n : p[i] = Field(order[i], image) /\ p[i] \in Steps(image)
  BY <1>2 DEF Steps
<1>4. p \in Seq(Steps(image)) /\ Len(p) = n
  <2>1. \A i \in 1 .. n : Field(order[i], image) \in Steps(image)
    BY <1>2 DEF Steps
  <2> QED
    BY <1>2, <2>1
<1> HIDE DEF p
<1>5. Elements(p) = {Field(a, image) : a \in Elements(order)}
  BY <1>3, <1>4 DEF Elements
<1>6. Tidy(by, p)
  <2> SUFFICES ASSUME NEW i \in 1 .. n, NEW j \in 1 .. n, i < j
               PROVE  Rank(by, p[i]) <= Rank(by, p[j]) /\ p[i] # p[j]
    BY <1>4 DEF Tidy
  <2>1. order[i] \in Elements(order) /\ order[j] \in Elements(order) /\ order[i] # order[j]
    BY DEF Elements
  <2>2. p[i].field = order[i] /\ p[j].field = order[j]
    <3>1. p[i] = Field(order[i], image) /\ p[j] = Field(order[j], image)
      BY <1>3, Zenon
    <3>2. \A a : Field(a, image).field = a
      BY DEF Field
    <3> QED
      BY <3>1, <3>2
  <2> QED
    BY <1>3, <2>1, <2>2
<1> QED
  BY <1>1, <1>4, <1>5, <1>6

LEMMA Orders ==
  /\ \A order \in {Data, Metadata, Metadata \o Data} :
       order \in Seq(Fields) /\ \A i, j \in 1 .. Len(order) : i < j => order[i] # order[j]
  /\ Elements(Data) = {"front", "rest"}
  /\ Elements(Metadata) = {"uuid", "group", "size", "sig"}
  /\ Elements(Metadata \o Data) = Fields
<1>1. Data \in Seq(Fields) /\ Len(Data) = 2 /\ Data[1] = "front" /\ Data[2] = "rest"
  BY DEF Data, Fields
<1>2. /\ Metadata \in Seq(Fields) /\ Len(Metadata) = 4 /\ Metadata[1] = "uuid"
      /\ Metadata[2] = "group" /\ Metadata[3] = "size" /\ Metadata[4] = "sig"
  BY DEF Metadata, Fields
<1> DEFINE both == Metadata \o Data
<1>3. /\ both \in Seq(Fields) /\ Len(both) = 6
      /\ \A i \in 1 .. 6 : both[i] = IF i <= 4 THEN Metadata[i] ELSE Data[i - 4]
  <2>1. /\ both \in Seq(Fields) /\ Len(both) = Len(Metadata) + Len(Data)
        /\ \A i \in 1 .. Len(Metadata) + Len(Data) :
             both[i] = IF i <= Len(Metadata) THEN Metadata[i] ELSE Data[i - Len(Metadata)]
    BY <1>1, <1>2, ConcatProperties, Zenon
  <2> HIDE DEF both
  <2>2. Len(Metadata) + Len(Data) = 6
    BY <1>1, <1>2
  <2> QED
    BY <1>2, <2>1, <2>2
<1> HIDE DEF both
<1>4. /\ both[1] = "uuid" /\ both[2] = "group" /\ both[3] = "size" /\ both[4] = "sig"
      /\ both[5] = "front" /\ both[6] = "rest"
  BY <1>1, <1>2, <1>3
<1>5. Elements(Data) = {"front", "rest"}
  BY <1>1 DEF Elements
<1>6. Elements(Metadata) = {"uuid", "group", "size", "sig"}
  <2>1. 1 .. 4 = {1, 2, 3, 4}
    OBVIOUS
  <2> QED
    BY <1>2, <2>1 DEF Elements
<1>7. Elements(both) = Fields
  <2>1. 1 .. 6 = {1, 2, 3, 4, 5, 6}
    OBVIOUS
  <2> QED
    BY <1>3, <1>4, <2>1 DEF Elements, Fields
<1>8. \A i, j \in 1 .. 6 : i < j => both[i] # both[j]
  <2>1. 1 .. 6 = {1, 2, 3, 4, 5, 6}
    OBVIOUS
  <2> QED
    BY <1>4, <2>1
<1>9. \A i, j \in 1 .. 4 : i < j => Metadata[i] # Metadata[j]
  BY <1>3, <1>8
<1> QED
  BY <1>1, <1>2, <1>3, <1>5, <1>6, <1>7, <1>8, <1>9 DEF both

\* A plan for this command, image and table.
Planned(by, image, table, plan) ==
  /\ plan \in Seq(Steps(image)) /\ Tidy(by, plan)
  /\ Elements(plan) = {FirstSector, LaterSectors, EraseTable} \cup {Field(a, image) : a \in Fields}
                      \cup {Entry(s, w, table[s][w]) : s \in Slots, w \in {1, 2}}

LEMMA JoinPlans ==
  ASSUME NEW S, NEW p \in Seq(S), NEW q \in Seq(S), NEW by, NEW rank \in Int,
         Tidy(by, p), Tidy(by, q),
         \A c \in Elements(p) : Rank(by, c) \in Int /\ Rank(by, c) < rank,
         \A c \in Elements(q) : Rank(by, c) \in Int /\ rank <= Rank(by, c)
  PROVE  /\ p \o q \in Seq(S) /\ Tidy(by, p \o q)
         /\ Elements(p \o q) = Elements(p) \cup Elements(q)
BY ElementsConcat, TidyConcat

LEMMA WritePlanned ==
  ASSUME NEW image, NEW table \in Tables
  PROVE  Planned("write", image, table,
           EraseSlot \o WriteFat(table) \o Program(image, Data) \o Program(image, Metadata))
<1> DEFINE S == Steps(image)  by == "write"
           p1 == EraseSlot  p2 == WriteFat(table)
           p3 == Program(image, Data)  p4 == Program(image, Metadata)
           E2 == {Entry(s, w, table[s][w]) : s \in Slots, w \in {1, 2}}
<1>1. by \in Commands
  BY DEF Commands
<1>2. /\ Rank(by, FirstSector) = 0 /\ Rank(by, LaterSectors) = 1 /\ Rank(by, EraseTable) = 2
      /\ \A s, v, x : Rank(by, Entry(s, x, v)) = 3
      /\ \A a : Rank(by, Field(a, image)) = IF a \notin {"front", "rest"} THEN 5 ELSE 4
  BY <1>1, Ranks
<1>3. p1 \in Seq(S) /\ Tidy(by, p1) /\ Elements(p1) = {FirstSector, LaterSectors}
  BY <1>1, EraseSlotPlan, EraseSlotTidy
<1>4. p2 \in Seq(S) /\ Tidy(by, p2) /\ Elements(p2) = {EraseTable} \cup E2
  <2>1. p2 \in Seq(S)
    BY WriteFatPlan
  <2>2. Tidy(by, p2)
    BY <1>1, WriteFatTidy
  <2>3. Elements(p2) = {EraseTable} \cup E2
    BY WriteFatPlan
  <2> QED
    BY <2>1, <2>2, <2>3
<1>5. p3 \in Seq(S) /\ Tidy(by, p3) /\ Elements(p3) = {Field(a, image) : a \in {"front", "rest"}}
  <2> DEFINE order == Data
  <2>1. \A a \in Elements(order) : Rank(by, Field(a, image)) = 4
    BY <1>2, Orders
  <2>2. order \in Seq(Fields) /\ \A i, j \in 1 .. Len(order) : i < j => order[i] # order[j]
    BY Orders
  <2> HIDE DEF order
  <2>3. /\ Program(image, order) \in Seq(S) /\ Tidy(by, Program(image, order))
        /\ Elements(Program(image, order)) = {Field(a, image) : a \in Elements(order)}
    BY <1>1, <2>1, <2>2, ProgramPlan
  <2> QED
    BY <2>3, Orders DEF order
<1>6. /\ p4 \in Seq(S) /\ Tidy(by, p4)
      /\ Elements(p4) = {Field(a, image) : a \in {"uuid", "group", "size", "sig"}}
  <2> DEFINE order == Metadata
  <2>1. \A a \in Elements(order) : Rank(by, Field(a, image)) = 5
    BY <1>2, Orders
  <2>2. order \in Seq(Fields) /\ \A i, j \in 1 .. Len(order) : i < j => order[i] # order[j]
    BY Orders
  <2> HIDE DEF order
  <2>3. /\ Program(image, order) \in Seq(S) /\ Tidy(by, Program(image, order))
        /\ Elements(Program(image, order)) = {Field(a, image) : a \in Elements(order)}
    BY <1>1, <2>1, <2>2, ProgramPlan
  <2> QED
    BY <2>3, Orders DEF order
<1> DEFINE q2 == p1 \o p2  q3 == q2 \o p3  q4 == q3 \o p4
<1> HIDE DEF p1, p2, p3, p4, S, by
<1>7. q2 \in Seq(S) /\ Tidy(by, q2) /\ Elements(q2) = Elements(p1) \cup Elements(p2)
  <2>1. /\ \A c \in Elements(p1) : Rank(by, c) \in Int /\ Rank(by, c) < 2
        /\ \A c \in Elements(p2) : Rank(by, c) \in Int /\ 2 <= Rank(by, c)
    BY <1>2, <1>3, <1>4
  <2> QED
    BY <1>3, <1>4, <2>1, JoinPlans
<1> HIDE DEF q2
<1>8. q3 \in Seq(S) /\ Tidy(by, q3) /\ Elements(q3) = Elements(q2) \cup Elements(p3)
  <2>1. /\ \A c \in Elements(q2) : Rank(by, c) \in Int /\ Rank(by, c) < 4
        /\ \A c \in Elements(p3) : Rank(by, c) \in Int /\ 4 <= Rank(by, c)
    BY <1>2, <1>3, <1>4, <1>5, <1>7
  <2> QED
    BY <1>5, <1>7, <2>1, JoinPlans
<1> HIDE DEF q3
<1>9. q4 \in Seq(S) /\ Tidy(by, q4) /\ Elements(q4) = Elements(q3) \cup Elements(p4)
  <2>1. /\ \A c \in Elements(q3) : Rank(by, c) \in Int /\ Rank(by, c) < 5
        /\ \A c \in Elements(p4) : Rank(by, c) \in Int /\ 5 <= Rank(by, c)
    BY <1>2, <1>3, <1>4, <1>5, <1>6, <1>7, <1>8
  <2> QED
    BY <1>6, <1>8, <2>1, JoinPlans
<1> HIDE DEF q4
<1>10. Elements(q4) = {FirstSector, LaterSectors, EraseTable} \cup {Field(a, image) : a \in Fields} \cup E2
  <2>1. {Field(a, image) : a \in Fields} = {Field(a, image) : a \in {"uuid", "group", "size", "sig"}}
                                           \cup {Field(a, image) : a \in {"front", "rest"}}
    BY DEF Fields
  <2> HIDE DEF E2
  <2> QED
    BY <1>3, <1>4, <1>5, <1>6, <1>7, <1>8, <1>9, <2>1
<1> QED
  BY <1>9, <1>10 DEF Planned, q4, q3, q2, p1, p2, p3, p4, S, by

LEMMA ReceivePlanned ==
  ASSUME NEW image, NEW table \in Tables
  PROVE  Planned("receive", image, table,
           WriteFat(table) \o EraseSlot \o Program(image, Metadata \o Data))
<1> DEFINE S == Steps(image)  by == "receive"
           p1 == WriteFat(table)  p2 == EraseSlot  p3 == Program(image, Metadata \o Data)
           E1 == {Entry(s, w, table[s][w]) : s \in Slots, w \in {1, 2}}
<1>1. by \in Commands
  BY DEF Commands
<1>2. /\ Rank(by, FirstSector) = 2 /\ Rank(by, LaterSectors) = 3 /\ Rank(by, EraseTable) = 0
      /\ \A s, v, x : Rank(by, Entry(s, x, v)) = 1
      /\ \A a : Rank(by, Field(a, image)) = 4
  BY <1>1, Ranks
<1>3. p1 \in Seq(S) /\ Tidy(by, p1) /\ Elements(p1) = {EraseTable} \cup E1
  <2>1. p1 \in Seq(S)
    BY WriteFatPlan
  <2>2. Tidy(by, p1)
    BY <1>1, WriteFatTidy
  <2>3. Elements(p1) = {EraseTable} \cup E1
    BY WriteFatPlan
  <2> QED
    BY <2>1, <2>2, <2>3
<1>4. p2 \in Seq(S) /\ Tidy(by, p2) /\ Elements(p2) = {FirstSector, LaterSectors}
  BY <1>1, EraseSlotPlan, EraseSlotTidy
<1>5. p3 \in Seq(S) /\ Tidy(by, p3) /\ Elements(p3) = {Field(a, image) : a \in Fields}
  <2> DEFINE order == Metadata \o Data
  <2>1. \A a \in Elements(order) : Rank(by, Field(a, image)) = 4
    BY <1>2, Orders
  <2>2. order \in Seq(Fields) /\ \A i, j \in 1 .. Len(order) : i < j => order[i] # order[j]
    BY Orders
  <2> HIDE DEF order
  <2>3. /\ Program(image, order) \in Seq(S) /\ Tidy(by, Program(image, order))
        /\ Elements(Program(image, order)) = {Field(a, image) : a \in Elements(order)}
    BY <1>1, <2>1, <2>2, ProgramPlan
  <2> QED
    BY <2>3, Orders DEF order
<1> DEFINE q2 == p1 \o p2  q3 == q2 \o p3
<1> HIDE DEF p1, p2, p3, S, by
<1>6. q2 \in Seq(S) /\ Tidy(by, q2) /\ Elements(q2) = Elements(p1) \cup Elements(p2)
  <2>1. /\ \A c \in Elements(p1) : Rank(by, c) \in Int /\ Rank(by, c) < 2
        /\ \A c \in Elements(p2) : Rank(by, c) \in Int /\ 2 <= Rank(by, c)
    BY <1>2, <1>3, <1>4
  <2> QED
    BY <1>3, <1>4, <2>1, JoinPlans
<1> HIDE DEF q2
<1>7. q3 \in Seq(S) /\ Tidy(by, q3) /\ Elements(q3) = Elements(q2) \cup Elements(p3)
  <2>1. /\ \A c \in Elements(q2) : Rank(by, c) \in Int /\ Rank(by, c) < 4
        /\ \A c \in Elements(p3) : Rank(by, c) \in Int /\ 4 <= Rank(by, c)
    BY <1>2, <1>3, <1>4, <1>5, <1>6
  <2> QED
    BY <1>5, <1>6, <2>1, JoinPlans
<1> HIDE DEF q3
<1>8. Elements(q3) = {FirstSector, LaterSectors, EraseTable} \cup {Field(a, image) : a \in Fields} \cup E1
  <2> HIDE DEF E1
  <2> QED
    BY <1>3, <1>4, <1>5, <1>6, <1>7
<1> QED
  BY <1>7, <1>8 DEF Planned, q3, q2, p1, p2, p3, S, by

\* Steps of different kinds, or for different fields or words, differ.
LEMMA Distinct ==
  ASSUME NEW image
  PROVE  /\ FirstSector # LaterSectors /\ FirstSector # EraseTable /\ LaterSectors # EraseTable
         /\ \A a : Field(a, image) \notin {FirstSector, LaterSectors, EraseTable}
         /\ \A s, w, v : Entry(s, w, v) \notin {FirstSector, LaterSectors, EraseTable}
         /\ \A a, s, w, v : Field(a, image) # Entry(s, w, v)
         /\ \A a, b : Field(a, image) = Field(b, image) => a = b
         /\ \A s, w, v, t, x, u : Entry(s, w, v) = Entry(t, x, u) => s = t /\ w = x /\ v = u
<1>1. Fields \ {"rest"} # {"rest"}
  BY DEF Fields
<1>2. /\ FirstSector.do = "erase" /\ FirstSector.fields # {"rest"}
      /\ LaterSectors.do = "erase" /\ LaterSectors.fields = {"rest"} /\ EraseTable.do = "eraseFat"
  BY <1>1 DEF FirstSector, LaterSectors, EraseTable, Erase
<1>3. /\ \A s, w, v : /\ Entry(s, w, v).do = "programFat" /\ Entry(s, w, v).slot = s
                      /\ Entry(s, w, v).word = w /\ Entry(s, w, v).value = v
      /\ \A a : Field(a, image).do = "program" /\ Field(a, image).field = a
  BY DEF Entry, Field
<1> QED
  BY <1>2, <1>3

\* The first step of a tidy plan comes before the others, which are those left after it.
LEMMA TailPlan ==
  ASSUME NEW S, NEW p \in Seq(S), NEW by, p # <<>>, Tidy(by, p)
  PROVE  /\ Tail(p) \in Seq(S) /\ Tidy(by, Tail(p)) /\ Len(Tail(p)) = Len(p) - 1
         /\ Head(p) \in Elements(p) /\ Elements(p) \subseteq S
         /\ Elements(Tail(p)) = Elements(p) \ {Head(p)}
         /\ \A c \in Elements(Tail(p)) : Rank(by, Head(p)) <= Rank(by, c)
<1> DEFINE n == Len(p)  t == Tail(p)
<1>1. /\ n \in Nat \ {0} /\ Head(p) = p[1] /\ t \in Seq(S) /\ Len(t) = n - 1
      /\ \A i \in 1 .. n : p[i] \in S
  OBVIOUS
<1>2. \A i \in 1 .. n - 1 : t[i] = p[i + 1]
  OBVIOUS
<1> HIDE DEF n, t
<1>3. Tidy(by, t)
  <2> SUFFICES ASSUME NEW i \in 1 .. n - 1, NEW j \in 1 .. n - 1, i < j
               PROVE  Rank(by, t[i]) <= Rank(by, t[j]) /\ t[i] # t[j]
    BY <1>1 DEF Tidy
  <2>1. i + 1 \in 1 .. n /\ j + 1 \in 1 .. n /\ i + 1 < j + 1
    BY <1>1
  <2> QED
    BY <1>2, <2>1 DEF Tidy, n
<1>4. ASSUME NEW c \in Elements(t)
      PROVE  c \in Elements(p) /\ c # Head(p) /\ Rank(by, Head(p)) <= Rank(by, c)
  <2>1. PICK i \in 1 .. n - 1 : c = t[i]
    BY <1>1 DEF Elements
  <2>2. 1 \in 1 .. n /\ i + 1 \in 1 .. n /\ 1 < i + 1 /\ c = p[i + 1]
    BY <1>1, <1>2, <2>1
  <2> QED
    BY <1>1, <2>2 DEF Tidy, Elements, n
<1>5. ASSUME NEW c \in Elements(p), c # Head(p) PROVE c \in Elements(t)
  <2>1. PICK i \in 1 .. n : c = p[i]
    BY DEF Elements, n
  <2>2. i - 1 \in 1 .. n - 1 /\ (i - 1) + 1 = i
    BY <1>1, <1>5, <2>1
  <2>3. c = t[i - 1]
    BY <1>2, <2>1, <2>2
  <2> QED
    BY <1>1, <2>2, <2>3 DEF Elements
<1>6. Head(p) \in Elements(p) /\ Elements(p) \subseteq S
  BY <1>1 DEF Elements, n
<1> QED
  BY <1>1, <1>3, <1>4, <1>5, <1>6 DEF n, t
-----------------------------------------------------------------------------
(* The start of a command, and a reset. *)

LEMMA FileImages ==
  ASSUME NEW f \in Files
  PROVE  Image(f) \in Images /\ OneFile(Image(f)) /\ Complete(Image(f))
BY FlashAssumption DEF Image, Images, Contents, OneFile, Complete, Fields

LEMMA NoImageFacts == NoImage \in Images /\ OneFile(NoImage) /\ Complete(NoImage)
BY PeerAssumption DEF NoImage, Images, Contents, OneFile, Complete

LEMMA InitHolds == FlashInit => FlashInv
<1> SUFFICES ASSUME FlashInit PROVE FlashInv
  OBVIOUS
<1> USE DEF FlashInit
<1>1. FlashTypeOK
  <2>1. 0 \in Accepted
    BY SlotBound
  <2> QED
    BY <2>1, NoImageFacts DEF FlashTypeOK, Commands, Images, Contents
<1>2. ImagesKept
  BY NoImageFacts DEF ImagesKept, NoMix, OneFile
<1>3. Reported
  BY DEF Reported, SuccessIsDurable
<1>4. TableKept
  <2>1. \A s \in Slots, w \in {1, 2} : fat[s][w] = Blank
    OBVIOUS
  <2>2. \A s \in Slots : slots[s]["uuid"] = Blank
    <3>1. Slots \subseteq Accepted
      BY SlotBound
    <3> QED
      BY <3>1 DEF NoImage, Fields
  <2> QED
    BY <2>1, <2>2 DEF TableKept
<1>5. todo \in Seq(Steps(job.image))
  BY EmptySeq
<1> QED
  BY <1>1, <1>2, <1>3, <1>4, <1>5 DEF FlashInv

Renamed(s, image) == [fat EXCEPT ![s] = <<image["uuid"], image["uuid"]>>]

LEMMA RenamedType ==
  ASSUME FlashTypeOK, NEW s, NEW image \in Images
  PROVE  /\ Renamed(s, image) \in Tables
         /\ \A t \in Slots, w \in {1, 2} :
              Renamed(s, image)[t][w] = IF t = s THEN image["uuid"] ELSE fat[t][w]
<1>1. fat \in Tables /\ image["uuid"] \in Contents
  BY DEF FlashTypeOK, Tables, Contents, Images, Fields
<1>2. <<image["uuid"], image["uuid"]>> \in Contents \X Contents
  BY <1>1
<1>3. Renamed(s, image) \in Tables
  BY <1>1, <1>2 DEF Renamed, Tables
<1>4. \A t \in Slots, w \in {1, 2} :
        Renamed(s, image)[t][w] = IF t = s THEN image["uuid"] ELSE fat[t][w]
  BY <1>1 DEF Renamed, Tables
<1> QED
  BY <1>3, <1>4

LEMMA BeginHolds ==
  ASSUME FlashInv, NEW by \in Commands, NEW s \in Accepted, NEW image \in Images, OneFile(image),
         NEW plan, Planned(by, image, Renamed(s, image), plan), Begin(by, s, image, plan)
  PROVE  FlashInv'
<1> USE DEF Begin
<1>1. /\ todo = <<>> /\ todo' = plan /\ slots' = slots /\ fat' = fat
      /\ job' = [by |-> by, slot |-> s, image |-> image] /\ cutOff \subseteq cutOff'
      /\ job'.by = by /\ job'.slot = s /\ job'.image = image
  OBVIOUS
<1>2. FlashTypeOK'
  BY NoImageFacts DEF FlashInv, FlashTypeOK, Images, Contents
<1>3. ImagesKept'
  <2>1. cutOff' = {} => Complete(image)
    BY DEF Complete
  <2>2. NoMix' /\ OneFile(job'.image)
    BY <1>1 DEF FlashInv, ImagesKept, NoMix, OneFile
  <2>3. cutOff' = {} => \A t \in Accepted : Complete(slots'[t])
    BY <1>1 DEF FlashInv, ImagesKept
  <2> QED
    BY <1>1, <2>1, <2>2, <2>3 DEF ImagesKept
<1>4. Reported'
  <2>1. stored \in [Accepted -> Images]
    BY DEF FlashInv, FlashTypeOK, Images, Contents
  <2> QED
    BY <1>1, <2>1 DEF FlashInv, Reported, SuccessIsDurable
<1>5. TableKept'
  BY <1>1 DEF FlashInv, TableKept
<1>6. Left' = {FirstSector, LaterSectors, EraseTable} \cup {Field(a, image) : a \in Fields}
              \cup {Entry(t, w, Renamed(s, image)[t][w]) : t \in Slots, w \in {1, 2}}
  <2>1. Left' = Elements(plan)
    BY <1>1 DEF Left, Elements
  <2> QED
    BY <2>1 DEF Planned
<1>7. Remaining'
  <2>1. todo' \in Seq(Steps(job'.image)) /\ Tidy(job'.by, todo')
    BY <1>1 DEF Planned
  <2>2. ASSUME NEW t \in Slots, NEW w \in {1, 2}, NEW v, Entry(t, w, v) \in Left'
        PROVE  v = IF t = s THEN image["uuid"] ELSE fat[t][w]
    <3>1. v = Renamed(s, image)[t][w]
      <4>1. \E u \in Slots, x \in {1, 2} : Entry(t, w, v) = Entry(u, x, Renamed(s, image)[u][x])
        BY <1>6, <2>2, Distinct
      <4> QED
        BY <4>1, Distinct
    <3> QED
      BY <3>1, RenamedType DEF FlashInv
  <2>3. ASSUME NEW t \in Slots, NEW w \in {1, 2}, NEW v \in Contents, Entry(t, w, v) \in Left'
        PROVE  Proper(t, v)'
    BY <1>1, <2>2, <2>3 DEF Proper, FlashInv, TableKept
  <2>4. \A t \in Slots, w \in {1, 2} : \E v \in Contents : Entry(t, w, v) \in Left'
    <3> SUFFICES ASSUME NEW t \in Slots, NEW w \in {1, 2}
                 PROVE  \E v \in Contents : Entry(t, w, v) \in Left'
      OBVIOUS
    <3>1. Renamed(s, image)[t][w] \in Contents
      BY RenamedType DEF FlashInv, Tables
    <3> QED
      BY <1>6, <3>1
  <2> QED
    BY <1>1, <1>6, <2>1, <2>2, <2>3, <2>4 DEF Remaining
<1>8. Fresh' /\ TableFresh'
  BY <1>6 DEF Fresh, TableFresh
<1>9. todo' \in Seq(Steps(job'.image))
  BY <1>1 DEF Planned
<1> QED
  BY <1>2, <1>3, <1>4, <1>5, <1>7, <1>8, <1>9 DEF FlashInv

LEMMA ResetHolds == FlashInv /\ FlashReset => FlashInv'
<1> SUFFICES ASSUME FlashInv, FlashReset PROVE FlashInv'
  OBVIOUS
<1>1. /\ todo # <<>> /\ todo' = <<>> /\ slots' = slots /\ fat' = fat /\ job' = job /\ stored' = stored
      /\ cutOff' = cutOff \cup {job.by} /\ job.by \in Commands
  BY DEF FlashReset, FlashInv, FlashTypeOK
<1>2. FlashTypeOK'
  BY <1>1 DEF FlashInv, FlashTypeOK
<1>3. ImagesKept'
  BY <1>1 DEF FlashInv, ImagesKept, NoMix
<1>4. Reported'
  BY <1>1 DEF FlashInv, Reported, SuccessIsDurable
<1>5. TableKept'
  <2>1. "receive" \notin cutOff' => "receive" \notin cutOff /\ job.by = "write"
    BY <1>1 DEF Commands
  <2> QED
    BY <1>1, <2>1 DEF FlashInv, TableKept
<1>6. todo' \in Seq(Steps(job'.image))
  BY <1>1, EmptySeq
<1> QED
  BY <1>1, <1>2, <1>3, <1>4, <1>5, <1>6 DEF FlashInv
-----------------------------------------------------------------------------
(* One flash command. *)

LEMMA NoElements == ASSUME NEW S, NEW p \in Seq(S) PROVE p = <<>> <=> Elements(p) = {}
<1>1. Len(p) \in Nat /\ (p = <<>> <=> Len(p) = 0)
  OBVIOUS
<1>2. Len(p) > 0 => p[1] \in Elements(p)
  BY <1>1 DEF Elements
<1>3. Len(p) = 0 => Elements(p) = {}
  BY DEF Elements
<1> QED
  BY <1>1, <1>2, <1>3

\* What issuing the next command does to the plan and to other slots.
LEMMA Issued ==
  ASSUME FlashInv, FlashStep
  PROVE  /\ todo # <<>> /\ Head(todo) \in Left /\ Left' = Left \ {Head(todo)}
         /\ Left \subseteq Steps(job.image)
         /\ todo' \in Seq(Steps(job'.image)) /\ Tidy(job'.by, todo')
         /\ (todo' = <<>> <=> Left' = {}) /\ (Len(todo) = 1 <=> todo' = <<>>)
         /\ \A c \in Left' : Rank(job.by, Head(todo)) <= Rank(job.by, c)
         /\ job' = job /\ cutOff' = cutOff /\ job.by \in Commands /\ job.slot \in Accepted
         /\ job.image \in Images
         /\ \A s \in Accepted \ {job.slot} : slots'[s] = slots[s]
         /\ slots'[job.slot] = OnSlot(Head(todo), slots[job.slot])
         /\ slots' = [slots EXCEPT ![job.slot] = slots'[job.slot]]
<1>1. todo # <<>> /\ todo \in Seq(Steps(job.image)) /\ Tidy(job.by, todo)
  BY DEF FlashInv, Remaining, FlashStep
<1>2. job' = job /\ cutOff' = cutOff /\ todo' = Tail(todo)
  BY DEF FlashStep
<1>3. Left' = Elements(Tail(todo))
  BY <1>2 DEF Left, Elements
<1>4. /\ Tail(todo) \in Seq(Steps(job.image)) /\ Tidy(job.by, Tail(todo))
      /\ Len(Tail(todo)) = Len(todo) - 1
      /\ Head(todo) \in Left /\ Left \subseteq Steps(job.image)
      /\ Elements(Tail(todo)) = Left \ {Head(todo)}
      /\ \A c \in Elements(Tail(todo)) : Rank(job.by, Head(todo)) <= Rank(job.by, c)
  BY <1>1, TailPlan DEF Left
<1>5. todo' = <<>> <=> Left' = {}
  BY <1>2, <1>3, <1>4, NoElements
<1>6. Len(todo) = 1 <=> todo' = <<>>
  <2>1. Len(todo) \in Nat /\ Len(todo') \in Nat /\ (todo' = <<>> <=> Len(todo') = 0)
    BY <1>1, <1>2, <1>4, LenProperties, EmptySeq
  <2> QED
    BY <1>2, <1>4, <2>1
<1>7. job.by \in Commands /\ job.slot \in Accepted /\ job.image \in Images
  BY DEF FlashInv, FlashTypeOK, Images, Contents
<1>8. /\ \A s \in Accepted \ {job.slot} : slots'[s] = slots[s]
      /\ slots'[job.slot] = OnSlot(Head(todo), slots[job.slot])
      /\ slots' = [slots EXCEPT ![job.slot] = slots'[job.slot]]
  <2>1. slots' = [slots EXCEPT ![job.slot] = OnSlot(Head(todo), slots[job.slot])]
    BY DEF FlashStep
  <2>2. slots \in [Accepted -> Images]
    BY DEF FlashInv, FlashTypeOK, Images, Contents
  <2> QED
    BY <1>7, <2>1, <2>2
<1> QED
  BY <1>1, <1>2, <1>3, <1>4, <1>5, <1>6, <1>7, <1>8

\* The five kinds of step, and what is over when each is issued.
LEMMA Kinds ==
  ASSUME FlashInv, FlashStep
  PROVE  LET c == Head(todo) IN
         \/ c = FirstSector
         \/ c = LaterSectors /\ FirstSector \notin Left
         \/ c = EraseTable
         \/ /\ \E s \in Slots, w \in {1, 2}, v \in Contents : c = Entry(s, w, v)
            /\ EraseTable \notin Left
            /\ job.by = "write" => FirstSector \notin Left /\ LaterSectors \notin Left
         \/ /\ \E a \in Fields : c = Field(a, job.image)
            /\ Left \subseteq {Field(a, job.image) : a \in Fields}
<1> DEFINE c == Head(todo)  by == job.by  image == job.image
<1>1. /\ c \in Left /\ c \in Steps(image) /\ Left \subseteq Steps(image)
      /\ Left' = Left \ {c} /\ \A d \in Left' : Rank(by, c) <= Rank(by, d)
      /\ by \in Commands
  BY Issued
<1> HIDE DEF c, by, image
<1>2. LET w == by = "write" IN
      /\ Rank(by, FirstSector) = IF w THEN 0 ELSE 2
      /\ Rank(by, LaterSectors) = IF w THEN 1 ELSE 3
      /\ Rank(by, EraseTable) = IF w THEN 2 ELSE 0
      /\ \A s, v, x : Rank(by, Entry(s, x, v)) = IF w THEN 3 ELSE 1
      /\ \A a : Rank(by, Field(a, image)) = IF w /\ a \notin {"front", "rest"} THEN 5 ELSE 4
  BY <1>1, Ranks
<1>3. CASE c = LaterSectors
  <2>1. FirstSector \notin Left
    BY <1>1, <1>2, <1>3, Distinct
  <2> QED
    BY <1>3, <2>1 DEF c
<1>4. CASE \E s \in Slots, w \in {1, 2}, v \in Contents : c = Entry(s, w, v)
  <2>1. Rank(by, c) = IF by = "write" THEN 3 ELSE 1
    BY <1>2, <1>4
  <2>2. c \notin {FirstSector, LaterSectors, EraseTable}
    BY <1>4, Distinct
  <2>3. EraseTable \notin Left
    BY <1>1, <1>2, <2>1, <2>2
  <2>4. by = "write" => FirstSector \notin Left /\ LaterSectors \notin Left
    BY <1>1, <1>2, <2>1, <2>2
  <2> QED
    BY <1>4, <2>3, <2>4 DEF c, by
<1>5. CASE \E a \in Fields : c = Field(a, image)
  <2>1. 4 <= Rank(by, c) /\ Rank(by, c) \in {4, 5}
    BY <1>2, <1>5
  <2>2. \A d \in Left : d = c \/ (d \in Steps(image) /\ 4 <= Rank(by, d))
    <3>1. \A d \in Steps(image) : Rank(by, d) \in 0 .. 5
      BY <1>2 DEF Steps
    <3> QED
      BY <1>1, <2>1, <3>1
  <2>3. \A d \in Steps(image) : 4 <= Rank(by, d) => \E a \in Fields : d = Field(a, image)
    BY <1>2 DEF Steps
  <2>4. Left \subseteq {Field(a, image) : a \in Fields}
    BY <1>5, <2>2, <2>3
  <2> QED
    BY <1>5, <2>4 DEF c, image
<1> QED
  <2>1. \/ c \in {FirstSector, LaterSectors, EraseTable}
        \/ \E s \in Slots, w \in {1, 2}, v \in Contents : c = Entry(s, w, v)
        \/ \E a \in Fields : c = Field(a, image)
    BY <1>1 DEF Steps
  <2> QED
    BY <1>3, <1>4, <1>5, <2>1 DEF c

LEMMA NotPrograms ==
  ASSUME NEW image
  PROVE  /\ FirstSector.do # "program" /\ LaterSectors.do # "program" /\ EraseTable.do # "program"
         /\ \A s, w, v : Entry(s, w, v).do # "program"
         /\ \A a : Field(a, image).do = "program"
BY DEF FirstSector, LaterSectors, EraseTable, Erase, Entry, Field

LEMMA ProperKept ==
  ASSUME FlashInv, FlashStep, NEW s \in Slots, NEW v
  PROVE  Proper(s, v)' <=> Proper(s, v)
<1>1. job' = job /\ cutOff' = cutOff /\ s \in Accepted
  BY Issued, SlotBound
<1>2. s # job.slot => slots'[s] = slots[s]
  BY <1>1, Issued
<1> QED
  BY <1>1, <1>2 DEF Proper

LEMMA RemainingKept ==
  ASSUME FlashInv, FlashStep
  PROVE  todo' \in Seq(Steps(job'.image)) /\ (todo' # <<>> => Remaining')
<1> DEFINE c == Head(todo)
<1>1. /\ Left' \subseteq Left /\ Left' = Left \ {c} /\ c \in Left /\ job' = job /\ Remaining
      /\ todo' \in Seq(Steps(job'.image)) /\ Tidy(job'.by, todo')
  BY Issued DEF FlashInv
<1>2. FirstSector \in Left' => LaterSectors \in Left'
  BY <1>1, Kinds, Distinct DEF Remaining
<1>3. (\E d \in Left' : d.do # "program") => \A a \in Fields : Field(a, job'.image) \in Left'
  <2> SUFFICES ASSUME NEW d \in Left', d.do # "program", NEW a \in Fields
               PROVE  Field(a, job'.image) \in Left'
    OBVIOUS
  <2>1. c.do # "program"
    BY <1>1, Kinds, NotPrograms
  <2>2. Field(a, job.image) \in Left
    BY <1>1 DEF Remaining
  <2> QED
    BY <1>1, <2>1, <2>2, NotPrograms
<1>4. ASSUME EraseTable \in Left', NEW s \in Slots, NEW w \in {1, 2}
      PROVE  \E v \in Contents : Entry(s, w, v) \in Left'
  <2>1. EraseTable \in Left /\ c # EraseTable
    BY <1>1, <1>4
  <2>2. \A v : Entry(s, w, v) # c
    BY <2>1, Kinds, NotPrograms, Distinct
  <2> QED
    BY <1>1, <2>1, <2>2 DEF Remaining
<1>5. ASSUME NEW s \in Slots, NEW w \in {1, 2}, NEW v \in Contents, Entry(s, w, v) \in Left'
      PROVE  Proper(s, v)'
  BY <1>1, <1>5, ProperKept DEF Remaining
<1> QED
  BY <1>1, <1>2, <1>3, <1>4, <1>5 DEF Remaining

LEMMA OnSlotFacts ==
  ASSUME NEW slot \in Images
  PROVE  /\ OnSlot(FirstSector, slot) = [a \in Fields |-> IF a = "rest" THEN slot[a] ELSE Blank]
         /\ OnSlot(LaterSectors, slot) = [a \in Fields |-> IF a = "rest" THEN Blank ELSE slot[a]]
         /\ OnSlot(EraseTable, slot) = slot
         /\ \A s, w, v : OnSlot(Entry(s, w, v), slot) = slot
<1>1. OnSlot(FirstSector, slot) = [a \in Fields |-> IF a = "rest" THEN slot[a] ELSE Blank]
  BY DEF OnSlot, FirstSector, Erase, Fields
<1>2. OnSlot(LaterSectors, slot) = [a \in Fields |-> IF a = "rest" THEN Blank ELSE slot[a]]
  BY DEF OnSlot, LaterSectors, Erase
<1>3. OnSlot(EraseTable, slot) = slot
  BY DEF OnSlot, EraseTable
<1>4. \A s, w, v : OnSlot(Entry(s, w, v), slot) = slot
  BY DEF OnSlot, Entry
<1> QED
  BY <1>1, <1>2, <1>3, <1>4

LEMMA OnFatFacts ==
  ASSUME NEW image
  PROVE  /\ OnFat(FirstSector) = fat /\ OnFat(LaterSectors) = fat
         /\ OnFat(EraseTable) = [s \in Slots |-> <<Blank, Blank>>]
         /\ \A a : OnFat(Field(a, image)) = fat
<1>1. OnFat(FirstSector) = fat /\ OnFat(LaterSectors) = fat
  BY DEF OnFat, FirstSector, LaterSectors, Erase
<1>2. OnFat(EraseTable) = [s \in Slots |-> <<Blank, Blank>>]
  BY DEF OnFat, EraseTable
<1>3. \A a : OnFat(Field(a, image)) = fat
  BY DEF OnFat, Field
<1> QED
  BY <1>1, <1>2, <1>3

LEMMA BlankBurns == ASSUME NEW v PROVE Burn(Blank, v) = v
BY DEF Burn

\* What all steps have in common.
LEMMA SlotsKept ==
  ASSUME FlashInv, FlashStep, slots'[job.slot] \in Images, OneFile(slots'[job.slot]), fat' \in Tables,
         todo' = <<>> => slots'[job.slot] = job.image
  PROVE  FlashTypeOK' /\ ImagesKept' /\ Reported'
<1> DEFINE S == job.slot
<1>1. /\ todo # <<>> /\ (Len(todo) = 1 <=> todo' = <<>>) /\ job' = job /\ cutOff' = cutOff
      /\ S \in Accepted /\ job.image \in Images
      /\ \A s \in Accepted \ {S} : slots'[s] = slots[s]
      /\ slots' = [slots EXCEPT ![S] = slots'[S]]
  BY Issued
<1>2. stored' = IF Len(todo) = 1 THEN [stored EXCEPT ![S] = job.image] ELSE stored
  BY DEF FlashStep
<1>3. slots \in [Accepted -> Images] /\ stored \in [Accepted -> Images]
  BY DEF FlashInv, FlashTypeOK, Images, Contents
<1>4. FlashTypeOK'
  <2>1. slots' \in [Accepted -> Images] /\ stored' \in [Accepted -> Images]
    BY <1>1, <1>2, <1>3
  <2> QED
    BY <1>1, <2>1 DEF FlashInv, FlashTypeOK, Images, Contents, Tables
<1>5. ImagesKept'
  <2>1. NoMix'
    BY <1>1 DEF FlashInv, ImagesKept, NoMix, OneFile
  <2> QED
    BY <1>1, <2>1 DEF FlashInv, ImagesKept
<1>6. Reported'
  <2>1. stored[S] = NoImage
    BY <1>1 DEF FlashInv, Reported
  <2>2. \A s \in Accepted \ {S} : stored'[s] = stored[s]
    BY <1>1, <1>2, <1>3
  <2>3. stored'[S] = IF todo' = <<>> THEN job.image ELSE NoImage
    BY <1>1, <1>2, <1>3, <2>1
  <2>4. todo' # <<>> => stored'[job'.slot] = NoImage
    BY <1>1, <2>3
  <2>5. SuccessIsDurable'
    BY <1>1, <2>2, <2>3 DEF FlashInv, Reported, SuccessIsDurable
  <2> QED
    BY <2>4, <2>5 DEF Reported
<1> QED
  BY <1>4, <1>5, <1>6

LEMMA FlashTypes ==
  ASSUME FlashInv
  PROVE  /\ fat \in Tables /\ \A s \in Accepted : slots[s] \in Images /\ OneFile(slots[s])
         /\ OneFile(job.image) /\ Slots \subseteq Accepted
BY SlotBound DEF FlashInv, FlashTypeOK, Images, Contents, Tables, ImagesKept, NoMix, OneFile

StepInv == FlashTypeOK /\ ImagesKept /\ Reported /\ TableKept /\ Fresh /\ TableFresh

\* A sector of the slot is erased.
LEMMA EraseHolds ==
  ASSUME FlashInv, FlashStep,
         \/ Head(todo) = FirstSector
         \/ Head(todo) = LaterSectors /\ FirstSector \notin Left
  PROVE  StepInv'
<1> DEFINE c == Head(todo)  S == job.slot  slot == slots[S]
<1>1. /\ todo # <<>> /\ c \in Left /\ Left' = Left \ {c} /\ job' = job /\ cutOff' = cutOff
      /\ (todo' = <<>> <=> Left' = {}) /\ S \in Accepted
      /\ \A s \in Accepted \ {S} : slots'[s] = slots[s]
      /\ slots'[S] = OnSlot(c, slot)
  BY Issued
<1>2. fat' = fat
  BY FlashTypes, OnFatFacts DEF FlashStep
<1>3. slot \in Images /\ OneFile(slot)
  BY <1>1, FlashTypes
<1>0. FirstSector # LaterSectors
  BY Distinct
<1>4. \A a \in Fields : slots'[S][a] =
        IF (c = FirstSector /\ a # "rest") \/ (c = LaterSectors /\ a = "rest") THEN Blank ELSE slot[a]
  <2>1. CASE c = FirstSector
    <3>1. slots'[S] = [a \in Fields |-> IF a = "rest" THEN slot[a] ELSE Blank]
      BY <1>1, <1>3, <2>1, OnSlotFacts
    <3> QED
      BY <1>0, <2>1, <3>1
  <2>2. CASE c = LaterSectors
    <3>1. slots'[S] = [a \in Fields |-> IF a = "rest" THEN Blank ELSE slot[a]]
      BY <1>1, <1>3, <2>2, OnSlotFacts
    <3> QED
      BY <1>0, <2>2, <3>1
  <2> QED
    BY <2>1, <2>2
<1>5. slots'[S] \in Images
  <2>1. \E F \in {{"rest"}, Fields \ {"rest"}} :
          slots'[S] = [a \in Fields |-> IF a \in F THEN Blank ELSE slot[a]]
    BY <1>1 DEF OnSlot, FirstSector, LaterSectors, Erase
  <2> QED
    BY <1>3, <2>1 DEF Images, Contents
<1>6. OneFile(slots'[S])
  BY <1>3, <1>4 DEF OneFile
<1>7. \A a \in Fields : Field(a, job.image) \in Left'
  BY <1>1, Distinct, NotPrograms DEF FlashInv, Remaining
<1>8. todo' # <<>>
  <2>1. "uuid" \in Fields
    BY DEF Fields
  <2> QED
    BY <1>1, <1>7, <2>1
<1>9. FlashTypeOK' /\ ImagesKept' /\ Reported'
  BY <1>2, <1>5, <1>6, <1>8, FlashTypes, SlotsKept
<1>10. Fresh'
  <2>1. FirstSector \in Left => LaterSectors \in Left
    BY <1>1 DEF FlashInv, Remaining
  <2>2. ASSUME FirstSector \notin Left', LaterSectors \in Left', NEW a \in Fields \ {"rest"}
        PROVE  slots'[S][a] = Blank
    BY <1>1, <1>4, <2>2 DEF FlashInv, Fresh
  <2>3. ASSUME LaterSectors \notin Left', NEW a \in Fields PROVE slots'[S][a] = Blank
    <3>1. c = LaterSectors
      BY <1>1, <2>1, <2>3, Distinct
    <3>2. FirstSector \notin Left /\ LaterSectors \in Left
      BY <1>1, <3>1, Distinct
    <3>3. a # "rest" => slot[a] = Blank
      BY <1>1, <3>2 DEF FlashInv, Fresh
    <3> QED
      BY <1>0, <1>4, <3>1, <3>3
  <2> QED
    BY <1>1, <1>7, <2>2, <2>3 DEF Fresh
<1>11. \A s \in Slots, w \in {1, 2} : \A v : Entry(s, w, v) \in Left' <=> Entry(s, w, v) \in Left
  BY <1>1, Distinct
<1>12. TableFresh'
  <2>1. EraseTable \in Left' <=> EraseTable \in Left
    BY <1>1, Distinct
  <2>2. \A s \in Slots, w \in {1, 2} : Proper(s, fat[s][w])' <=> Proper(s, fat[s][w])
    BY <1>2, ProperKept DEF Proper
  <2> QED
    BY <1>1, <1>2, <1>11, <2>1, <2>2 DEF FlashInv, TableFresh
<1>13. TableKept'
  <2>1. slots'[S]["uuid"] = Blank
    <3>1. "uuid" \in Fields /\ "uuid" # "rest"
      BY DEF Fields
    <3>2. c = LaterSectors => slot["uuid"] = Blank
      BY <1>0, <1>1, <3>1 DEF FlashInv, Fresh
    <3> QED
      BY <1>0, <1>4, <3>1, <3>2
  <2>2. EraseTable \in Left' => EraseTable \in Left
    BY <1>1
  <2> QED
    BY <1>1, <1>2, <1>8, <2>1, <2>2, FlashTypes DEF FlashInv, TableKept
<1> QED
  BY <1>9, <1>10, <1>12, <1>13 DEF StepInv

\* The FAT is erased.
LEMMA EraseTableHolds ==
  ASSUME FlashInv, FlashStep, Head(todo) = EraseTable
  PROVE  StepInv'
<1> DEFINE S == job.slot  slot == slots[S]
<1>1. /\ todo # <<>> /\ EraseTable \in Left /\ Left' = Left \ {EraseTable} /\ job' = job
      /\ cutOff' = cutOff /\ (todo' = <<>> <=> Left' = {}) /\ S \in Accepted
      /\ \A s \in Accepted \ {S} : slots'[s] = slots[s]
      /\ slots'[S] = OnSlot(EraseTable, slot)
  BY Issued
<1>2. slot \in Images /\ OneFile(slot) /\ slots'[S] = slot
  BY <1>1, FlashTypes, OnSlotFacts
<1>3. fat' = [s \in Slots |-> <<Blank, Blank>>]
  BY FlashTypes, OnFatFacts DEF FlashStep
<1>4. fat' \in Tables /\ \A s \in Slots, w \in {1, 2} : fat'[s][w] = Blank
  <2>1. <<Blank, Blank>> \in Contents \X Contents
    BY DEF Contents
  <2> QED
    BY <1>3, <2>1 DEF Tables
<1>5. \A a \in Fields : Field(a, job.image) \in Left' /\ Field(a, job.image) \in Left
  BY <1>1, Distinct, NotPrograms DEF FlashInv, Remaining
<1>6. todo' # <<>>
  <2>1. "uuid" \in Fields
    BY DEF Fields
  <2> QED
    BY <1>1, <1>5, <2>1
<1>7. FlashTypeOK' /\ ImagesKept' /\ Reported'
  BY <1>2, <1>4, <1>6, SlotsKept
<1>8. Fresh'
  <2>1. /\ FirstSector \in Left' <=> FirstSector \in Left
        /\ LaterSectors \in Left' <=> LaterSectors \in Left
    BY <1>1, Distinct
  <2> QED
    BY <1>1, <1>2, <1>5, <2>1 DEF FlashInv, Fresh
<1>9. TableFresh'
  <2>1. \A s \in Slots, w \in {1, 2} : \E v \in Contents : Entry(s, w, v) \in Left'
    BY <1>1, Distinct DEF FlashInv, Remaining
  <2> QED
    BY <1>4, <2>1 DEF TableFresh
<1>10. TableKept'
  BY <1>1, <1>4, <1>6 DEF TableKept
<1> QED
  BY <1>7, <1>8, <1>9, <1>10 DEF StepInv

\* A word of the FAT is programmed.
LEMMA EntryHolds ==
  ASSUME FlashInv, FlashStep, NEW t \in Slots, NEW x \in {1, 2}, NEW u \in Contents,
         Head(todo) = Entry(t, x, u), EraseTable \notin Left,
         job.by = "write" => FirstSector \notin Left /\ LaterSectors \notin Left
  PROVE  StepInv'
<1> DEFINE c == Entry(t, x, u)  S == job.slot  slot == slots[S]
<1>1. /\ todo # <<>> /\ c \in Left /\ Left' = Left \ {c} /\ job' = job
      /\ cutOff' = cutOff /\ (todo' = <<>> <=> Left' = {}) /\ S \in Accepted
      /\ \A s \in Accepted \ {S} : slots'[s] = slots[s]
      /\ slots'[S] = OnSlot(c, slot)
  BY Issued
<1>2. slot \in Images /\ OneFile(slot) /\ slots'[S] = slot
  BY <1>1, FlashTypes, OnSlotFacts
<1>3. \A s \in Accepted : slots'[s] = slots[s]
  BY <1>1, <1>2
<1>4. fat' = [fat EXCEPT ![t][x] = u]
  <2>1. fat[t][x] = Blank
    BY <1>1 DEF FlashInv, TableFresh
  <2>2. fat' = [fat EXCEPT ![t][x] = Burn(fat[t][x], u)]
    <3>1. fat' = OnFat(c)
      BY DEF FlashStep
    <3>2. OnFat(Entry(t, x, u)) = [fat EXCEPT ![t][x] = Burn(fat[t][x], u)]
      BY DEF OnFat, Entry
    <3> QED
      BY <3>1, <3>2
  <2> QED
    BY <2>1, <2>2, BlankBurns
<1>5. fat' \in Tables /\ \A s \in Slots, w \in {1, 2} :
        fat'[s][w] = IF s = t /\ w = x THEN u ELSE fat[s][w]
  <2>1. fat \in Tables
    BY FlashTypes
  <2>2. fat[t] \in Contents \X Contents
    BY <2>1 DEF Tables
  <2>3. [fat[t] EXCEPT ![x] = u] \in Contents \X Contents
    BY <2>2
  <2> QED
    BY <1>4, <2>1, <2>2, <2>3 DEF Tables
<1>6. \A a \in Fields : Field(a, job.image) \in Left' /\ Field(a, job.image) \in Left
  BY <1>1, Distinct, NotPrograms DEF FlashInv, Remaining
<1>7. todo' # <<>>
  <2>1. "uuid" \in Fields
    BY DEF Fields
  <2> QED
    BY <1>1, <1>6, <2>1
<1>8. FlashTypeOK' /\ ImagesKept' /\ Reported'
  BY <1>2, <1>5, <1>7, SlotsKept
<1>9. Fresh'
  <2>1. /\ FirstSector \in Left' <=> FirstSector \in Left
        /\ LaterSectors \in Left' <=> LaterSectors \in Left
    BY <1>1, Distinct
  <2> QED
    BY <1>1, <1>2, <1>6, <2>1 DEF FlashInv, Fresh
<1>10. Proper(t, u)
  BY <1>1 DEF FlashInv, Remaining
<1>11. TableFresh'
  <2> SUFFICES ASSUME NEW s \in Slots, NEW w \in {1, 2}
               PROVE  IF \E v \in Contents : Entry(s, w, v) \in Left' THEN fat'[s][w] = Blank
                      ELSE Proper(s, fat[s][w])'
    BY DEF TableFresh
  <2>1. CASE s = t /\ w = x
    <3>1. \A v \in Contents : Entry(s, w, v) \notin Left'
      BY <1>1, <2>1 DEF FlashInv, Remaining
    <3>2. Proper(s, u)' /\ fat'[s][w] = u
      BY <1>5, <1>10, <2>1, ProperKept
    <3>3. Proper(s, fat[s][w])'
      BY <3>2 DEF Proper
    <3> QED
      BY <3>1, <3>3
  <2>2. CASE ~(s = t /\ w = x)
    <3>1. \A v \in Contents : Entry(s, w, v) \in Left' <=> Entry(s, w, v) \in Left
      BY <1>1, <2>2, Distinct
    <3>2. fat'[s][w] = fat[s][w]
      BY <1>5, <2>2
    <3>3. Proper(s, fat[s][w])' <=> Proper(s, fat[s][w])
      BY <3>2, ProperKept DEF Proper
    <3> QED
      BY <1>1, <3>1, <3>2, <3>3 DEF FlashInv, TableFresh
  <2> QED
    BY <2>1, <2>2
<1>12. TableKept'
  <2> SUFFICES ASSUME NEW s \in Slots, NEW w \in {1, 2},
                      "receive" \notin cutOff, s # S \/ job.by = "write"
               PROVE  fat'[s][w] \in {slots'[s]["uuid"], Blank} \/ slots'[s]["uuid"] = Blank
    BY <1>1, <1>7 DEF TableKept
  <2>1. CASE s = t /\ w = x
    <3>1. CASE s # S
      BY <1>3, <1>5, <1>10, <2>1, <3>1, FlashTypes DEF Proper
    <3>2. CASE s = S
      <4>1. LaterSectors \notin Left /\ "uuid" \in Fields
        BY <3>2 DEF Fields
      <4>2. slot["uuid"] \in {Blank, job.image["uuid"]}
        BY <1>1, <4>1 DEF FlashInv, Fresh
      <4> QED
        BY <1>2, <1>5, <1>10, <2>1, <3>2, <4>2 DEF Proper
    <3> QED
      BY <3>1, <3>2
  <2>2. CASE ~(s = t /\ w = x)
    <3>1. fat'[s][w] = fat[s][w] /\ slots'[s] = slots[s]
      BY <1>3, <1>5, <2>2, FlashTypes
    <3> QED
      BY <1>1, <3>1 DEF FlashInv, TableKept
  <2> QED
    BY <2>1, <2>2
<1> QED
  BY <1>8, <1>9, <1>11, <1>12 DEF StepInv

\* A field of the slot is programmed; nothing but programs is left.
LEMMA FieldHolds ==
  ASSUME FlashInv, FlashStep, NEW b \in Fields, Head(todo) = Field(b, job.image),
         Left \subseteq {Field(a, job.image) : a \in Fields}
  PROVE  StepInv'
<1> DEFINE S == job.slot  slot == slots[S]  image == job.image  c == Field(b, image)
<1>1. /\ todo # <<>> /\ c \in Left /\ Left' = Left \ {c} /\ job' = job
      /\ cutOff' = cutOff /\ (todo' = <<>> <=> Left' = {}) /\ S \in Accepted
      /\ \A s \in Accepted \ {S} : slots'[s] = slots[s]
      /\ slots'[S] = OnSlot(c, slot) /\ image \in Images
  BY Issued
<1>2. slot \in Images /\ OneFile(image)
  BY <1>1, FlashTypes
<1>3. /\ FirstSector \notin Left /\ LaterSectors \notin Left /\ EraseTable \notin Left
      /\ \A s, w, v : Entry(s, w, v) \notin Left
  BY Distinct
<1>4. \A a \in Fields : slot[a] = IF Field(a, image) \in Left THEN Blank ELSE image[a]
  BY <1>1, <1>3 DEF FlashInv, Fresh
<1>5. slots'[S] = [slot EXCEPT ![b] = image[b]]
  <2>1. slots'[S] = [slot EXCEPT ![b] = Burn(slot[b], image[b])]
    <3>1. OnSlot(c, slot) = [slot EXCEPT ![b] = Burn(slot[b], image[b])]
      BY DEF OnSlot, Field
    <3> QED
      BY <1>1, <3>1
  <2>2. slot[b] = Blank
    BY <1>1, <1>4
  <2>3. Burn(slot[b], image[b]) = image[b]
    BY <2>2, BlankBurns
  <2> QED
    BY <2>1, <2>3
<1>6. \A a \in Fields : slots'[S][a] = IF Field(a, image) \in Left' THEN Blank ELSE image[a]
  <2>1. \A a \in Fields : Field(a, image) \in Left' <=> Field(a, image) \in Left /\ a # b
    BY <1>1, Distinct
  <2> QED
    BY <1>2, <1>4, <1>5, <2>1 DEF Images
<1>7. slots'[S] \in Images /\ OneFile(slots'[S])
  <2>1. slots'[S] \in Images
    BY <1>1, <1>2, <1>5 DEF Images
  <2>2. OneFile(slots'[S])
    BY <1>2, <1>6 DEF OneFile
  <2> QED
    BY <2>1, <2>2
<1>8. todo' = <<>> => slots'[S] = image
  BY <1>1, <1>6, <1>7 DEF Images
<1>9. fat' = fat /\ fat \in Tables
  BY FlashTypes, OnFatFacts DEF FlashStep
<1>10. FlashTypeOK' /\ ImagesKept' /\ Reported'
  BY <1>7, <1>8, <1>9, SlotsKept
<1>11. Fresh'
  BY <1>1, <1>3, <1>6 DEF Fresh
<1>12. ASSUME NEW s \in Slots, NEW w \in {1, 2} PROVE Proper(s, fat[s][w]) /\ Proper(s, fat[s][w])'
  <2>1. Proper(s, fat[s][w])
    BY <1>1, <1>3 DEF FlashInv, TableFresh
  <2>2. Proper(s, fat[s][w])' <=> Proper(s, fat[s][w])
    BY <1>9, ProperKept DEF Proper
  <2> QED
    BY <2>1, <2>2
<1>13. TableFresh'
  BY <1>1, <1>3, <1>12 DEF TableFresh
<1>14. TableKept'
  <2> SUFFICES ASSUME NEW s \in Slots, NEW w \in {1, 2}
               PROVE  /\ "receive" \notin cutOff /\ (todo' = <<>> \/ s # S \/ job.by = "write") =>
                           fat[s][w] \in {slots'[s]["uuid"], Blank} \/ slots'[s]["uuid"] = Blank
                      /\ cutOff = {} /\ todo' = <<>> => fat[s][w] = slots'[s]["uuid"]
    BY <1>1, <1>3, <1>9 DEF TableKept
  <2>1. CASE s # S
    BY <1>1, <1>12, <2>1, FlashTypes DEF Proper
  <2>2. CASE s = S
    <3>1. "uuid" \in Fields
      BY DEF Fields
    <3>2. fat[s][w] = image["uuid"]
      BY <1>12, <2>2 DEF Proper
    <3>3. slots'[S]["uuid"] \in {Blank, image["uuid"]}
      BY <1>6, <3>1
    <3> QED
      BY <1>8, <2>2, <3>2, <3>3
  <2> QED
    BY <2>1, <2>2
<1> QED
  BY <1>10, <1>11, <1>13, <1>14 DEF StepInv

LEMMA StepHolds == FlashInv /\ FlashStep => FlashInv'
<1> SUFFICES ASSUME FlashInv, FlashStep PROVE FlashInv'
  OBVIOUS
<1>1. StepInv'
  BY Kinds, EraseHolds, EraseTableHolds, EntryHolds, FieldHolds
<1> QED
  BY <1>1, RemainingKept DEF FlashInv, StepInv
-----------------------------------------------------------------------------
(* The invariant and what follows from it. *)

LEMMA PlanOf ==
  ASSUME FlashInv, NEW s \in Accepted
  PROVE  /\ \A f \in Files : Planned("write", Image(f), Renamed(s, Image(f)), WritePlan(s, f))
         /\ \A image \in Images : Planned("receive", image, Renamed(s, image), ReceivePlan(s, image))
<1>1. \A image : UpdateFat(s, image) = WriteFat(Renamed(s, image))
  BY DEF UpdateFat, Renamed
<1>2. ASSUME NEW f \in Files PROVE Planned("write", Image(f), Renamed(s, Image(f)), WritePlan(s, f))
  <2>1. Renamed(s, Image(f)) \in Tables
    BY RenamedType, FileImages DEF FlashInv
  <2> QED
    BY <1>1, <2>1, WritePlanned DEF WritePlan
<1>3. ASSUME NEW image \in Images
      PROVE  Planned("receive", image, Renamed(s, image), ReceivePlan(s, image))
  <2>1. Renamed(s, image) \in Tables
    BY RenamedType DEF FlashInv
  <2> QED
    BY <1>1, <2>1, ReceivePlanned DEF ReceivePlan
<1> QED
  BY <1>2, <1>3

LEMMA CommandHolds ==
  ASSUME FlashInv, NEW s \in Accepted,
         \/ \E f \in Files : WriteFile(s, f)
         \/ \E image \in PeerImages : ReceiveFile(s, image)
  PROVE  FlashInv' /\ todo = <<>> /\ todo' # <<>>
<1>1. PICK by \in Commands, image \in Images :
        OneFile(image) /\ Planned(by, image, Renamed(s, image), todo') /\ Begin(by, s, image, todo')
  <2>1. CASE \E f \in Files : WriteFile(s, f)
    <3>1. PICK f \in Files : WriteFile(s, f)
      BY <2>1
    <3>2. "write" \in Commands
      BY DEF Commands
    <3> QED
      BY <3>1, <3>2, FileImages, PlanOf DEF WriteFile, Begin
  <2>2. CASE \E image \in PeerImages : ReceiveFile(s, image)
    <3>1. PICK image \in PeerImages : ReceiveFile(s, image)
      BY <2>2
    <3>2. "receive" \in Commands /\ image \in Images /\ OneFile(image)
      BY FlashAssumption, PeerAssumption DEF Commands, Images, Contents, OneFile
    <3> QED
      BY <3>1, <3>2, PlanOf DEF ReceiveFile, Begin
  <2> QED
    BY <2>1, <2>2
<1>2. todo' # <<>>
  <2>1. FirstSector \in Elements(todo') /\ todo' \in Seq(Steps(image))
    BY <1>1 DEF Planned
  <2> QED
    BY <2>1, NoElements
<1> QED
  BY <1>1, <1>2, BeginHolds DEF Begin

LEMMA NextHolds == FlashInv /\ [FlashNext]_flashVars => FlashInv'
<1> SUFFICES ASSUME FlashInv, [FlashNext]_flashVars PROVE FlashInv'
  OBVIOUS
<1>1. CASE UNCHANGED flashVars
  <2>1. /\ slots' = slots /\ fat' = fat /\ todo' = todo /\ job' = job /\ stored' = stored
        /\ cutOff' = cutOff
    BY <1>1 DEF flashVars
  <2>2. Left' = Left
    BY <2>1 DEF Left, Elements
  <2>3. \A s, v : Proper(s, v)' <=> Proper(s, v)
    BY <2>1 DEF Proper
  <2>4. TableFresh' <=> TableFresh
    <3>1. \A s, w : Proper(s, fat[s][w])' <=> Proper(s, fat[s][w])
      BY <2>1 DEF Proper
    <3> QED
      BY <2>1, <2>2, <3>1 DEF TableFresh
  <2>5. Remaining' <=> Remaining
    BY <2>1, <2>2, <2>3 DEF Remaining
  <2>6. Fresh' <=> Fresh
    BY <2>1, <2>2 DEF Fresh
  <2>7. (FlashTypeOK /\ ImagesKept /\ Reported /\ TableKept)' <=>
          (FlashTypeOK /\ ImagesKept /\ Reported /\ TableKept)
    BY <2>1, <2>2 DEF FlashTypeOK, ImagesKept, NoMix, Reported, SuccessIsDurable, TableKept
  <2> QED
    BY <2>1, <2>4, <2>5, <2>6, <2>7 DEF FlashInv
<1>2. CASE FlashNext
  BY <1>2, CommandHolds, StepHolds, ResetHolds DEF FlashNext
<1> QED
  BY <1>1, <1>2

\* What the flash commands still to come mean for what is in flash now.
THEOREM FlashInvariant == FlashSpec => []FlashInv
<1> QED
  BY InitHolds, NextHolds, PTL DEF FlashSpec

\* Types, and no field and no FAT word is ever programmed twice without an erase between:
\* the erase loops of file_write and of receive cover all that is programmed later.
THEOREM FlashTypesHold == FlashSpec => []FlashTypeOK
<1>1. FlashInv => FlashTypeOK
  BY DEF FlashInv
<1> QED
  BY <1>1, FlashInvariant, PTL

\* No slot combines two files, however often a reset cuts a write or a receive off.
THEOREM FilesNeverMix == FlashSpec => []NoMix
<1>1. FlashInv => NoMix
  BY DEF FlashInv, ImagesKept
<1> QED
  BY <1>1, FlashInvariant, PTL

\* What write or receive reported stored stays until a command for the slot begins.
THEOREM StoredStays == FlashSpec => []SuccessIsDurable
<1>1. FlashInv => SuccessIsDurable
  BY DEF FlashInv, Reported
<1> QED
  BY <1>1, FlashInvariant, PTL

\* The FAT, which receive writes first and write after the erase, misnames a file only
\* because of a receive that runs or was cut off.
THEOREM OnlyReceiveMisnames == FlashSpec => []WritesNeverMisname
<1>1. FlashInv => WritesNeverMisname
  BY DEF FlashInv, TableKept, WritesNeverMisname, NamesItsFile
<1> QED
  BY <1>1, FlashInvariant, PTL

\* What read makes of an image.
Reads(image, f) == \A a \in {"uuid", "group", "size", "sig"} \cup DataOf[f] : image[a] = f

LEMMA ReadIs ==
  ASSUME NEW image
  PROVE  /\ ReadResult(image) \in Contents
         /\ \A f \in Files : ReadResult(image) = f <=> Reads(image, f)
<1> DEFINE P(f) == \A a \in {"uuid", "group", "size", "sig"} \cup DataOf[f] : image[a] = f
           g == CHOOSE f \in Files : P(f)
<1>1. ReadResult(image) = IF \E f \in Files : P(f) THEN g ELSE Blank
  BY DEF ReadResult
<1>2. (\E f \in Files : P(f)) => g \in Files /\ P(g)
  <2> HIDE DEF P
  <2> QED
    OBVIOUS
<1>3. ASSUME NEW f \in Files, P(f) PROVE image["uuid"] = f
  BY <1>3
<1>4. \A f : Reads(image, f) <=> P(f)
  BY DEF Reads
<1> HIDE DEF P, g
<1>5. Blank \notin Files
  BY FlashAssumption
<1>6. ReadResult(image) \in Contents
  BY <1>1, <1>2 DEF Contents
<1>7. ASSUME NEW f \in Files PROVE ReadResult(image) = f <=> Reads(image, f)
  BY <1>1, <1>2, <1>3, <1>4, <1>5
<1> QED
  BY <1>6, <1>7

LEMMA CompleteReads ==
  ASSUME NEW image, Complete(image)
  PROVE  /\ image["size"] # Blank <=> ReadResult(image) # Blank
         /\ image["size"] # Blank <=> image["group"] # Blank
<1>1. Blank \notin Files
  BY FlashAssumption
<1>2. CASE image = NoImage
  <2>1. image["uuid"] = Blank /\ image["size"] = Blank /\ image["group"] = Blank
    BY <1>2 DEF NoImage, Fields
  <2>2. \A f \in Files : ~Reads(image, f)
    BY <1>1, <2>1 DEF Reads
  <2> QED
    BY <2>1, <2>2, ReadIs DEF Contents
<1>3. ASSUME NEW f \in Files, image = Image(f)
      PROVE  image["size"] = f /\ image["group"] = f /\ ReadResult(image) = f
  <2>1. DataOf[f] \subseteq {"front", "rest"}
    BY FlashAssumption
  <2>2. \A a \in {"uuid", "group", "size", "sig"} \cup DataOf[f] : image[a] = f
    BY <1>3, <2>1 DEF Image, Fields
  <2> QED
    BY <2>2, ReadIs DEF Reads
<1> QED
  BY <1>1, <1>2, <1>3 DEF Complete

\* As long as no command was cut off: list, interrogate, listen, read and the FAT agree.
THEOREM QueriesAlwaysAgree == FlashSpec => []QueriesAgree
<1>1. FlashInv => QueriesAgree
  <2> SUFFICES ASSUME FlashInv, todo = <<>>, cutOff = {}, NEW s \in Slots
               PROVE  /\ Listed(s) <=> ReadResult(slots[s]) # Blank
                      /\ Listed(s) <=> Offered(s)
                      /\ fat[s] = <<slots[s]["uuid"], slots[s]["uuid"]>>
    BY DEF QueriesAgree
  <2>1. Complete(slots[s]) /\ s \in Accepted
    BY FlashTypes DEF FlashInv, ImagesKept
  <2>2. fat[s][1] = slots[s]["uuid"] /\ fat[s][2] = slots[s]["uuid"]
    BY DEF FlashInv, TableKept
  <2>3. fat[s] \in Contents \X Contents
    BY FlashTypes DEF Tables
  <2>4. fat[s] = <<slots[s]["uuid"], slots[s]["uuid"]>>
    BY <2>2, <2>3
  <2> QED
    BY <2>1, <2>4, CompleteReads DEF Listed, Offered
<1> QED
  BY <1>1, FlashInvariant, PTL
-----------------------------------------------------------------------------
(* Readers see the abstract file store. *)

Reading == [s \in Accepted |-> ReadResult(slots[s])]
Pending == IF todo = <<>> THEN <<>> ELSE <<job.slot, ReadResult(job.image)>>

\* A flash command only takes away from the slot, or adds to it a field of the new image.
LEMMA SlotEffect ==
  ASSUME FlashInv, FlashStep
  PROVE  LET old == slots[job.slot]  new == slots'[job.slot] IN
         \/ \A a \in Fields : new[a] \in {old[a], Blank}
         \/ \A a \in Fields : new[a] \in {job.image[a], Blank} /\ old[a] \in {new[a], Blank}
<1> DEFINE old == slots[job.slot]  new == slots'[job.slot]  c == Head(todo)
<1>1. old \in Images /\ new = OnSlot(c, old) /\ c \in Left /\ todo # <<>>
  BY Issued, FlashTypes
<1>2. CASE c \in {FirstSector, LaterSectors}
  <2>1. \E F \in {{"rest"}, Fields \ {"rest"}} :
          new = [a \in Fields |-> IF a \in F THEN Blank ELSE old[a]]
    BY <1>1, <1>2 DEF OnSlot, FirstSector, LaterSectors, Erase
  <2>2. \A a \in Fields : new[a] \in {old[a], Blank}
    BY <2>1
  <2> QED
    BY <2>2
<1>3. CASE c = EraseTable \/ \E s \in Slots, w \in {1, 2}, v \in Contents : c = Entry(s, w, v)
  BY <1>1, <1>3, OnSlotFacts
<1>4. ASSUME NEW b \in Fields, c = Field(b, job.image),
             Left \subseteq {Field(a, job.image) : a \in Fields}
      PROVE  \A a \in Fields : new[a] \in {job.image[a], Blank} /\ old[a] \in {new[a], Blank}
  <2>1. \A a \in Fields : old[a] = IF Field(a, job.image) \in Left THEN Blank ELSE job.image[a]
    BY <1>1, <1>4, Distinct DEF FlashInv, Fresh
  <2>2. new = [old EXCEPT ![b] = Burn(old[b], job.image[b])]
    BY <1>1, <1>4 DEF OnSlot, Field
  <2>3. old[b] = Blank
    BY <1>1, <1>4, <2>1
  <2>4. Burn(old[b], job.image[b]) = job.image[b]
    BY <2>3, BlankBurns
  <2>5. new = [old EXCEPT ![b] = job.image[b]]
    BY <2>2, <2>4
  <2> QED
    BY <1>1, <2>1, <2>3, <2>5 DEF Images
<1> QED
  BY <1>2, <1>3, <1>4, Kinds

LEMMA ReadChange ==
  ASSUME FlashInv, FlashStep
  PROVE  LET old == ReadResult(slots[job.slot])  new == ReadResult(slots'[job.slot]) IN
         new = old \/ new = Blank \/ (old = Blank /\ new = ReadResult(job.image))
<1> DEFINE before == slots[job.slot]  after == slots'[job.slot]
           old == ReadResult(before)  new == ReadResult(after)
<1> SUFFICES ASSUME new # Blank, new # old PROVE old = Blank /\ new = ReadResult(job.image)
  OBVIOUS
<1>1. Blank \notin Files /\ DataOf \in [Files -> {{}, {"front"}, {"front", "rest"}}]
  BY FlashAssumption
<1>2. new \in Files /\ Reads(after, new)
  BY ReadIs DEF Contents
<1>3. {"uuid", "group", "size", "sig"} \cup DataOf[new] \subseteq Fields
  BY <1>1, <1>2 DEF Fields
<1>4. ~Reads(before, new)
  BY <1>2, ReadIs
<1>5. ~\A a \in Fields : after[a] \in {before[a], Blank}
  BY <1>1, <1>2, <1>3, <1>4 DEF Reads
<1>6. \A a \in Fields : after[a] \in {job.image[a], Blank} /\ before[a] \in {after[a], Blank}
  BY <1>5, SlotEffect
<1>7. Reads(job.image, new)
  BY <1>1, <1>2, <1>3, <1>6 DEF Reads
<1>8. ASSUME NEW g \in Files PROVE ~Reads(before, g)
  <2> SUFFICES ASSUME Reads(before, g) PROVE FALSE
    OBVIOUS
  <2>1. before["uuid"] = g /\ after["uuid"] = new
    BY <1>2 DEF Reads
  <2>2. "uuid" \in Fields
    BY DEF Fields
  <2>3. g = new
    BY <1>1, <1>6, <2>1, <2>2
  <2> QED
    BY <1>4, <2>3
<1> QED
  BY <1>2, <1>7, <1>8, ReadIs DEF Contents

LEMMA InitStore == FlashInit => Store!Init
<1> SUFFICES ASSUME FlashInit PROVE Store!Init
  OBVIOUS
<1>1. Reading \in [Accepted -> Contents]
  BY ReadIs DEF Reading
<1> QED
  BY <1>1 DEF FlashInit, Store!Init, Reading, Contents

LEMMA NextStore == FlashInv /\ [FlashNext]_flashVars => [Store!Next]_(Store!vars)
<1> SUFFICES ASSUME FlashInv, [FlashNext]_flashVars PROVE [Store!Next]_(Store!vars)
  OBVIOUS
<1>1. ASSUME NEW s \in Accepted,
             \/ \E f \in Files : WriteFile(s, f)
             \/ \E image \in PeerImages : ReceiveFile(s, image)
      PROVE  Store!Next
  <2>1. todo = <<>> /\ todo' # <<>> /\ slots' = slots /\ job'.slot = s
    BY <1>1, CommandHolds DEF WriteFile, ReceiveFile, Begin
  <2>2. ReadResult(job'.image) \in Contents
    BY ReadIs
  <2>3. Store!Replace(s, ReadResult(job'.image))
    BY <2>1 DEF Store!Replace
  <2> QED
    BY <2>2, <2>3 DEF Store!Next, Contents
<1>2. ASSUME FlashReset PROVE Store!Next
  BY <1>2 DEF FlashReset, Store!Next, Store!End
<1>3. ASSUME FlashStep PROVE [Store!Next]_(Store!vars)
  <2> DEFINE S == job.slot  old == ReadResult(slots[S])  new == ReadResult(slots'[S])
  <2>1. /\ todo # <<>> /\ job' = job /\ S \in Accepted
        /\ \A s \in Accepted \ {S} : slots'[s] = slots[s]
    BY <1>3, Issued
  <2>2. Pending = <<S, ReadResult(job.image)>> /\ Pending' \in {Pending, <<>>} /\ Pending # <<>>
    BY <2>1 DEF Pending
  <2>3. Reading' = [Reading EXCEPT ![S] = new] /\ Reading[S] = old
    BY <2>1 DEF Reading
  <2>4. CASE new = old
    <3>1. Reading' = Reading
      BY <2>3, <2>4 DEF Reading
    <3>2. CASE todo' = <<>>
      BY <3>1, <3>2 DEF Store!Next, Store!End, Reading
    <3>3. CASE todo' # <<>>
      BY <2>1, <3>1, <3>3 DEF Store!vars, Reading
    <3> QED
      BY <3>2, <3>3
  <2>5. CASE new = Blank
    <3>1. Store!GiveUp
      BY <2>2, <2>3, <2>5 DEF Store!GiveUp, Store!Change, Reading, Pending
    <3> QED
      BY <3>1 DEF Store!Next
  <2>6. CASE new # Blank /\ old = Blank /\ new = ReadResult(job.image)
    <3>1. Store!Appear
      BY <2>2, <2>3, <2>6 DEF Store!Appear, Store!Change, Reading, Pending
    <3> QED
      BY <3>1 DEF Store!Next
  <2> QED
    BY <1>3, <2>4, <2>5, <2>6, ReadChange
<1>4. CASE UNCHANGED flashVars
  BY <1>4 DEF flashVars, Store!vars
<1> QED
  BY <1>1, <1>2, <1>3, <1>4 DEF FlashNext

\* A slot reads as one whole file or as nothing: a write or a receive gives the old file
\* of its slot up before its own appears, at once, and a reset changes nothing else.
THEOREM FlashImplementsFileStore == FlashSpec => ImplementsFileStore
  BY FlashInvariant, InitStore, NextStore, PTL DEF FlashSpec, Store!Spec, ImplementsFileStore

ProgramOrder(by) ==
  IF by = "write" THEN <<"front", "rest", "uuid", "group", "size", "sig">>
                  ELSE <<"uuid", "group", "size", "sig", "front", "rest">>

\* A plan ends with the programs of the six fields, in this order.
EndsWith(by, image, plan) ==
  \A i \in 1 .. Len(plan) :
    LET k == 6 - (Len(plan) - i)
    IN  IF k >= 1 THEN plan[i] = Field(ProgramOrder(by)[k], image) ELSE plan[i].do # "program"

PeerInv ==
  /\ PeersAreAlike
  /\ todo # <<>> => /\ EndsWith(job.by, job.image, todo)
                    /\ job.by = "write" => \E f \in Files : job.image = Image(f)
                    /\ job.by = "receive" => job.image \in PeerImages

LEMMA ProgramOrders ==
  /\ LET w == ProgramOrder("write") IN
     /\ w \in Seq(Fields) /\ Len(w) = 6 /\ w[1] = "front" /\ w[2] = "rest" /\ w[3] = "uuid"
     /\ w[4] = "group" /\ w[5] = "size" /\ w[6] = "sig"
  /\ LET r == ProgramOrder("receive") IN
     /\ r \in Seq(Fields) /\ Len(r) = 6 /\ r[1] = "uuid" /\ r[2] = "group" /\ r[3] = "size"
     /\ r[4] = "sig" /\ r[5] = "front" /\ r[6] = "rest"
BY DEF ProgramOrder, Fields

\* Programs after a plan without any.
LEMMA EndsAfter ==
  ASSUME NEW by \in Commands, NEW image, NEW p \in Seq(Steps(image)),
         \A c \in Elements(p) : c.do # "program",
         NEW q \in Seq(Steps(image)), Len(q) = 6,
         \A i \in 1 .. 6 : q[i] = Field(ProgramOrder(by)[i], image)
  PROVE  EndsWith(by, image, p \o q)
<1> DEFINE n == Len(p)  t == p \o q
<1>1. /\ t \in Seq(Steps(image)) /\ Len(t) = n + 6 /\ n \in Nat
      /\ \A i \in 1 .. n + 6 : t[i] = IF i <= n THEN p[i] ELSE q[i - n]
  <2>1. /\ t \in Seq(Steps(image)) /\ Len(t) = n + Len(q)
        /\ \A i \in 1 .. n + Len(q) : t[i] = IF i <= n THEN p[i] ELSE q[i - n]
    BY ConcatProperties, Zenon
  <2> QED
    BY <2>1, LenProperties
<1>2. \A i \in 1 .. n : p[i].do # "program"
  BY DEF Elements
<1> HIDE DEF n, t
<1>3. ASSUME NEW i \in 1 .. n + 6
      PROVE  LET k == 6 - (n + 6 - i)
             IN  IF k >= 1 THEN t[i] = Field(ProgramOrder(by)[k], image) ELSE t[i].do # "program"
  <2>1. 6 - (n + 6 - i) = i - n
    BY <1>1
  <2>2. CASE i <= n
    <3>1. ~(i - n >= 1) /\ t[i] = p[i] /\ i \in 1 .. n
      BY <1>1, <2>2
    <3> QED
      BY <1>2, <2>1, <3>1
  <2>3. CASE ~(i <= n)
    <3>1. i - n >= 1 /\ i - n \in 1 .. 6 /\ t[i] = q[i - n]
      BY <1>1, <2>3
    <3> QED
      BY <2>1, <3>1
  <2> QED
    BY <2>2, <2>3
<1> QED
  BY <1>1, <1>3 DEF EndsWith, t

LEMMA SixPrograms ==
  ASSUME NEW image
  PROVE  /\ LET q == Program(image, Data) \o Program(image, Metadata) IN
            /\ q \in Seq(Steps(image)) /\ Len(q) = 6
            /\ \A i \in 1 .. 6 : q[i] = Field(ProgramOrder("write")[i], image)
         /\ Program(image, Data) \in Seq(Steps(image)) /\ Program(image, Metadata) \in Seq(Steps(image))
         /\ LET q == Program(image, Metadata \o Data) IN
            /\ q \in Seq(Steps(image)) /\ Len(q) = 6
            /\ \A i \in 1 .. 6 : q[i] = Field(ProgramOrder("receive")[i], image)
<1>1. ASSUME NEW order \in Seq(Fields)
      PROVE  LET q == Program(image, order) IN
             q \in Seq(Steps(image)) /\ Len(q) = Len(order)
             /\ \A i \in 1 .. Len(order) : q[i] = Field(order[i], image)
  <2> DEFINE n == Len(order)  q == [i \in 1 .. n |-> Field(order[i], image)]
  <2>1. Program(image, order) = q
    BY DEF Program, Field
  <2>2. n \in Nat /\ \A i \in 1 .. n : Field(order[i], image) \in Steps(image)
    BY DEF Steps
  <2> HIDE DEF n
  <2>3. q \in Seq(Steps(image)) /\ Len(q) = n /\ \A i \in 1 .. n : q[i] = Field(order[i], image)
    BY <2>2
  <2> QED
    BY <2>1, <2>3 DEF n
<1>2. /\ Data \in Seq(Fields) /\ Len(Data) = 2 /\ Data[1] = "front" /\ Data[2] = "rest"
      /\ Metadata \in Seq(Fields) /\ Len(Metadata) = 4 /\ Metadata[1] = "uuid"
      /\ Metadata[2] = "group" /\ Metadata[3] = "size" /\ Metadata[4] = "sig"
  BY DEF Data, Metadata, Fields
<1>3. ASSUME NEW S, NEW p \in Seq(S), NEW q \in Seq(S)
      PROVE  /\ p \o q \in Seq(S) /\ Len(p \o q) = Len(p) + Len(q)
             /\ \A i \in 1 .. Len(p) + Len(q) : (p \o q)[i] = IF i <= Len(p) THEN p[i] ELSE q[i - Len(p)]
  BY ConcatProperties, Zenon
<1> HIDE DEF Data, Metadata
<1>4. LET order == Metadata \o Data IN
      /\ order \in Seq(Fields) /\ Len(order) = 6
      /\ \A i \in 1 .. 6 : order[i] = ProgramOrder("receive")[i]
  <2>1. /\ Metadata \o Data \in Seq(Fields) /\ Len(Metadata \o Data) = 4 + 2
        /\ \A i \in 1 .. 4 + 2 : (Metadata \o Data)[i] = IF i <= 4 THEN Metadata[i] ELSE Data[i - 4]
    <3>1. /\ Metadata \o Data \in Seq(Fields) /\ Len(Metadata \o Data) = Len(Metadata) + Len(Data)
          /\ \A i \in 1 .. Len(Metadata) + Len(Data) :
               (Metadata \o Data)[i] = IF i <= Len(Metadata) THEN Metadata[i] ELSE Data[i - Len(Metadata)]
      BY <1>2, <1>3, Zenon
    <3> QED
      BY <1>2, <3>1
  <2>2. 1 .. 4 + 2 = {1, 2, 3, 4, 5, 6} /\ 1 .. 6 = {1, 2, 3, 4, 5, 6}
    OBVIOUS
  <2> QED
    BY <1>2, <2>1, <2>2, ProgramOrders
<1>5. LET q == Program(image, Metadata \o Data) IN
      /\ q \in Seq(Steps(image)) /\ Len(q) = 6
      /\ \A i \in 1 .. 6 : q[i] = Field(ProgramOrder("receive")[i], image)
  <2> DEFINE order == Metadata \o Data
  <2>1. order \in Seq(Fields) /\ Len(order) = 6 /\ \A i \in 1 .. 6 : order[i] = ProgramOrder("receive")[i]
    BY <1>4
  <2> HIDE DEF order
  <2>2. /\ Program(image, order) \in Seq(Steps(image)) /\ Len(Program(image, order)) = 6
        /\ \A i \in 1 .. 6 : Program(image, order)[i] = Field(order[i], image)
    BY <1>1, <2>1
  <2> QED
    BY <2>1, <2>2 DEF order
<1> DEFINE d == Program(image, Data)  m == Program(image, Metadata)
<1>6. /\ d \in Seq(Steps(image)) /\ Len(d) = 2 /\ m \in Seq(Steps(image)) /\ Len(m) = 4
      /\ \A i \in 1 .. 2 : d[i] = Field(Data[i], image)
      /\ \A i \in 1 .. 4 : m[i] = Field(Metadata[i], image)
  BY <1>1, <1>2
<1> HIDE DEF d, m
<1>7. /\ d \o m \in Seq(Steps(image)) /\ Len(d \o m) = 6
      /\ \A i \in 1 .. 6 : (d \o m)[i] = Field(ProgramOrder("write")[i], image)
  <2>1. /\ d \o m \in Seq(Steps(image)) /\ Len(d \o m) = 2 + 4
        /\ \A i \in 1 .. 2 + 4 : (d \o m)[i] = IF i <= 2 THEN d[i] ELSE m[i - 2]
    <3>1. /\ d \o m \in Seq(Steps(image)) /\ Len(d \o m) = Len(d) + Len(m)
          /\ \A i \in 1 .. Len(d) + Len(m) :
               (d \o m)[i] = IF i <= Len(d) THEN d[i] ELSE m[i - Len(d)]
      BY <1>3, <1>6, Zenon
    <3> QED
      BY <1>6, <3>1
  <2>2. 1 .. 2 + 4 = {1, 2, 3, 4, 5, 6} /\ 1 .. 6 = {1, 2, 3, 4, 5, 6}
    OBVIOUS
  <2>3. \A i \in 1 .. 6 : (d \o m)[i] = IF i <= 2 THEN Field(Data[i], image) ELSE Field(Metadata[i - 2], image)
    BY <1>6, <2>1
  <2>4. \A i \in 1 .. 6 : ProgramOrder("write")[i] = IF i <= 2 THEN Data[i] ELSE Metadata[i - 2]
    BY <1>2, <2>2, ProgramOrders
  <2> QED
    BY <2>1, <2>3, <2>4
<1> QED
  BY <1>5, <1>6, <1>7 DEF d, m

\* Both commands' plans end so.
LEMMA PlansEnd ==
  ASSUME FlashInv, NEW s \in Accepted
  PROVE  /\ \A f \in Files : EndsWith("write", Image(f), WritePlan(s, f))
         /\ \A image \in Images : EndsWith("receive", image, ReceivePlan(s, image))
<1>1. \A image : UpdateFat(s, image) = WriteFat(Renamed(s, image))
  BY DEF UpdateFat, Renamed
<1>2. ASSUME NEW image \in Images
      PROVE  /\ EraseSlot \o UpdateFat(s, image) \in Seq(Steps(image))
             /\ UpdateFat(s, image) \o EraseSlot \in Seq(Steps(image))
             /\ \A c \in Elements(EraseSlot \o UpdateFat(s, image)) : c.do # "program"
             /\ \A c \in Elements(UpdateFat(s, image) \o EraseSlot) : c.do # "program"
  <2> DEFINE p == EraseSlot  q == UpdateFat(s, image)  t == Renamed(s, image)
  <2>1. t \in Tables
    BY RenamedType DEF FlashInv
  <2>2. p \in Seq(Steps(image)) /\ \A c \in Elements(p) : c.do # "program"
    BY EraseSlotPlan, NotPrograms
  <2> HIDE DEF p, t
  <2>3. q \in Seq(Steps(image))
    BY <1>1, <2>1, WriteFatPlan DEF t
  <2>4. \A c \in Elements(q) : c.do # "program"
    <3>1. q = WriteFat(t)
      BY <1>1 DEF t
    <3>2. Elements(WriteFat(t)) = {EraseTable} \cup {Entry(u, w, t[u][w]) : u \in Slots, w \in {1, 2}}
      BY <2>1, WriteFatPlan
    <3> QED
      BY <3>1, <3>2, NotPrograms
  <2> HIDE DEF q
  <2>5. p \o q \in Seq(Steps(image)) /\ Elements(p \o q) = Elements(p) \cup Elements(q)
    BY <2>2, <2>3, ElementsConcat
  <2>6. q \o p \in Seq(Steps(image)) /\ Elements(q \o p) = Elements(q) \cup Elements(p)
    BY <2>2, <2>3, ElementsConcat
  <2> QED
    BY <2>2, <2>4, <2>5, <2>6 DEF p, q
<1>3. ASSUME NEW f \in Files PROVE EndsWith("write", Image(f), WritePlan(s, f))
  <2> DEFINE image == Image(f)  p == EraseSlot \o UpdateFat(s, image)
             d == Program(image, Data)  m == Program(image, Metadata)
  <2>1. image \in Images /\ "write" \in Commands
    BY FileImages DEF Commands
  <2>2. WritePlan(s, f) = p \o d \o m
    BY DEF WritePlan
  <2>3. p \in Seq(Steps(image)) /\ \A c \in Elements(p) : c.do # "program"
    BY <1>2, <2>1
  <2>4. /\ d \in Seq(Steps(image)) /\ m \in Seq(Steps(image)) /\ d \o m \in Seq(Steps(image))
        /\ Len(d \o m) = 6 /\ \A i \in 1 .. 6 : (d \o m)[i] = Field(ProgramOrder("write")[i], image)
    BY SixPrograms
  <2> HIDE DEF image, p, d, m
  <2>5. p \o d \o m = p \o (d \o m)
    <3> DEFINE S == Steps(image)
    <3>1. p \in Seq(S) /\ d \in Seq(S) /\ m \in Seq(S)
      BY <2>3, <2>4
    <3> HIDE DEF S
    <3>2. (p \o d) \o m = p \o (d \o m)
      BY <3>1, ConcatAssociative
    <3> QED
      BY <3>2
  <2>6. EndsWith("write", image, p \o (d \o m))
    BY <2>1, <2>3, <2>4, EndsAfter
  <2> QED
    BY <2>2, <2>5, <2>6 DEF image
<1>4. ASSUME NEW image \in Images PROVE EndsWith("receive", image, ReceivePlan(s, image))
  <2> DEFINE p == UpdateFat(s, image) \o EraseSlot  q == Program(image, Metadata \o Data)
  <2>1. ReceivePlan(s, image) = p \o q /\ "receive" \in Commands
    BY DEF ReceivePlan, Commands
  <2>2. p \in Seq(Steps(image)) /\ \A c \in Elements(p) : c.do # "program"
    BY <1>2
  <2>3. /\ q \in Seq(Steps(image)) /\ Len(q) = 6
        /\ \A i \in 1 .. 6 : q[i] = Field(ProgramOrder("receive")[i], image)
    BY SixPrograms
  <2> HIDE DEF p, q
  <2> QED
    BY <2>1, <2>2, <2>3, EndsAfter
<1> QED
  BY <1>3, <1>4

LEMMA TailEnds ==
  ASSUME NEW S, NEW p \in Seq(S), p # <<>>, NEW by, NEW image, EndsWith(by, image, p)
  PROVE  EndsWith(by, image, Tail(p))
<1> DEFINE n == Len(p)  t == Tail(p)
<1>1. n \in Nat \ {0} /\ Len(t) = n - 1 /\ \A i \in 1 .. n - 1 : t[i] = p[i + 1]
  OBVIOUS
<1> HIDE DEF n, t
<1> SUFFICES ASSUME NEW i \in 1 .. n - 1
             PROVE  LET k == 6 - (n - 1 - i)
                    IN  IF k >= 1 THEN t[i] = Field(ProgramOrder(by)[k], image)
                                  ELSE t[i].do # "program"
  BY <1>1 DEF EndsWith, t
<1>2. i + 1 \in 1 .. n /\ 6 - (n - (i + 1)) = 6 - (n - 1 - i)
  BY <1>1
<1>3. LET k == 6 - (n - (i + 1))
      IN  IF k >= 1 THEN p[i + 1] = Field(ProgramOrder(by)[k], image)
                    ELSE p[i + 1].do # "program"
  BY <1>2 DEF EndsWith, n
<1> QED
  BY <1>1, <1>2, <1>3

\* Once programming has begun, the fields left are the last ones of the order.
LEMMA LastFields ==
  ASSUME FlashInv, FlashStep, EndsWith(job.by, job.image, todo), Head(todo).do = "program"
  PROVE  \E m \in 0 .. 5 :
           Left' = {Field(ProgramOrder(job.by)[k], job.image) : k \in 7 - m .. 6}
<1> DEFINE n == Len(todo)  t == Tail(todo)  order == ProgramOrder(job.by)  image == job.image
<1>1. todo \in Seq(Steps(image)) /\ todo # <<>> /\ todo' = t
  BY DEF FlashInv, FlashStep
<1>2. n \in Nat \ {0} /\ Len(t) = n - 1 /\ Head(todo) = todo[1]
  BY <1>1
<1>3. EndsWith(job.by, image, t)
  BY <1>1, TailEnds
<1>4. n <= 6
  <2>1. 1 \in 1 .. n
    BY <1>2
  <2>2. 6 - (n - 1) >= 1
    BY <1>2, <2>1 DEF EndsWith
  <2> QED
    BY <1>2, <2>2
<1> HIDE DEF n, t, order, image
<1> DEFINE m == n - 1
<1>5. m \in 0 .. 5 /\ Len(t) = m
  BY <1>2, <1>4
<1>6. \A i \in 1 .. m : 6 - (m - i) >= 1 /\ t[i] = Field(order[6 - (m - i)], image)
  <2> SUFFICES ASSUME NEW i \in 1 .. m
               PROVE  6 - (m - i) >= 1 /\ t[i] = Field(order[6 - (m - i)], image)
    OBVIOUS
  <2>1. 6 - (m - i) >= 1
    BY <1>5
  <2> QED
    BY <1>3, <1>5, <2>1 DEF EndsWith, order
<1>7. Left' = {t[i] : i \in 1 .. m}
  BY <1>1, <1>5 DEF Left, Elements
<1> HIDE DEF m
<1>8. ASSUME NEW i \in 1 .. m PROVE 6 - (m - i) \in 7 - m .. 6
  BY <1>5
<1>9. ASSUME NEW k \in 7 - m .. 6 PROVE k - 6 + m \in 1 .. m /\ 6 - (m - (k - 6 + m)) = k
  BY <1>5
<1>10. {t[i] : i \in 1 .. m} = {Field(order[k], image) : k \in 7 - m .. 6}
  <2> DEFINE F == {Field(order[k], image) : k \in 7 - m .. 6}
  <2>1. \A i \in 1 .. m : t[i] \in F
    BY <1>6, <1>8
  <2>2. \A k \in 7 - m .. 6 : \E i \in 1 .. m : t[i] = Field(order[k], image)
    BY <1>6, <1>9
  <2> QED
    BY <2>1, <2>2
<1> QED
  BY <1>5, <1>7, <1>10 DEF order, image

\* A slot that can be sent while its fields are being programmed holds what a reset may leave.
LEMMA FieldKeepsAlike ==
  ASSUME ClosedUnderResets(PeerImages), FlashInv, PeerInv, FlashStep, NEW b \in Fields,
         Head(todo) = Field(b, job.image), Left \subseteq {Field(a, job.image) : a \in Fields},
         Sendable(slots'[job.slot])
  PROVE  slots'[job.slot] \in PeerImages
<1> DEFINE image == job.image  new == slots'[job.slot]  by == job.by
<1>1. /\ job' = job /\ job.slot \in Accepted /\ image \in Images /\ by \in Commands
      /\ todo # <<>> /\ Left' \subseteq Left
  BY Issued
<1>2. StepInv'
  BY FieldHolds
<1>3. \A a \in Fields : new[a] = IF Field(a, image) \in Left' THEN Blank ELSE image[a]
  <2>1. LaterSectors \notin Left'
    BY <1>1, Distinct
  <2> QED
    BY <1>1, <1>2, <2>1 DEF StepInv, Fresh
<1>4. new \in Images
  BY <1>1, <1>2 DEF StepInv, FlashTypeOK, Images, Contents
<1>5. PICK m \in 0 .. 5 : Left' = {Field(ProgramOrder(by)[k], image) : k \in 7 - m .. 6}
  <2>1. Head(todo).do = "program"
    BY DEF Field
  <2>2. EndsWith(by, image, todo)
    BY <1>1 DEF PeerInv
  <2> QED
    BY <2>1, <2>2, LastFields
<1> DEFINE lost == {ProgramOrder(by)[k] : k \in 7 - m .. 6}
<1>6. \A a \in Fields : Field(a, image) \in Left' <=> a \in lost
  BY <1>5, Distinct
<1>7. new = Kept(image, Fields \ lost)
  BY <1>3, <1>4, <1>6 DEF Images, Kept
<1>8. Blank # new["size"] /\ "size" \notin lost
  <2>1. "size" \in Fields
    BY DEF Fields
  <2> QED
    BY <1>3, <1>6, <2>1 DEF Sendable
<1>9. CASE by = "write"
  <2>1. PICK f \in Files : image = Image(f)
    BY <1>1, <1>9 DEF PeerInv
  <2>2. m \in {0, 1}
    <3>1. m >= 2 => 5 \in 7 - m .. 6
      OBVIOUS
    <3> QED
      BY <1>8, <1>9, <3>1, ProgramOrders
  <2>3. CASE m = 0
    <3>1. new = image
      BY <1>1, <1>4, <1>7, <2>3 DEF Kept, Images
    <3> QED
      BY <2>1, <3>1 DEF ClosedUnderResets
  <2>4. CASE m = 1
    <3>1. lost = {"sig"}
      <4>1. 7 - m .. 6 = {6}
        BY <2>4
      <4> QED
        BY <1>9, <4>1, ProgramOrders
    <3> QED
      BY <1>7, <2>1, <3>1 DEF ClosedUnderResets
  <2> QED
    BY <2>2, <2>3, <2>4
<1>10. CASE by = "receive"
  <2>1. image \in PeerImages
    BY <1>1, <1>10 DEF PeerInv
  <2>2. m \in 0 .. 3
    <3>1. m >= 4 => 3 \in 7 - m .. 6
      OBVIOUS
    <3> QED
      BY <1>8, <1>10, <3>1, ProgramOrders
  <2>3. lost \in {{}, {"rest"}, {"front", "rest"}, {"sig", "front", "rest"}}
    <3>1. CASE m = 0
      <4>1. 7 - m .. 6 = {}
        BY <3>1
      <4> QED
        BY <4>1
    <3>2. CASE m = 1
      <4>1. 7 - m .. 6 = {6}
        BY <3>2
      <4> QED
        BY <1>10, <4>1, ProgramOrders
    <3>3. CASE m = 2
      <4>1. 7 - m .. 6 = {5, 6}
        BY <3>3
      <4> QED
        BY <1>10, <4>1, ProgramOrders
    <3>4. CASE m = 3
      <4>1. 7 - m .. 6 = {4, 5, 6}
        BY <3>4
      <4> QED
        BY <1>10, <4>1, ProgramOrders
    <3>5. m = 0 \/ m = 1 \/ m = 2 \/ m = 3
      BY <2>2
    <3> QED
      BY <3>1, <3>2, <3>3, <3>4, <3>5, Zenon
  <2> QED
    BY <1>7, <2>1, <2>3 DEF ClosedUnderResets
<1> QED
  BY <1>1, <1>9, <1>10 DEF Commands

LEMMA StepKeepsAlike ==
  ASSUME ClosedUnderResets(PeerImages), FlashInv, PeerInv, FlashStep
  PROVE  PeerInv'
<1> DEFINE S == job.slot  c == Head(todo)
<1>1. /\ todo # <<>> /\ job' = job /\ S \in Accepted /\ todo \in Seq(Steps(job.image))
      /\ \A s \in Accepted \ {S} : slots'[s] = slots[s]
      /\ slots'[S] = OnSlot(c, slots[S]) /\ todo' = Tail(todo)
  BY Issued DEF FlashInv, FlashStep
<1>2. EndsWith(job.by, job.image, todo')
  <2>1. EndsWith(job.by, job.image, todo)
    BY <1>1 DEF PeerInv
  <2> QED
    BY <1>1, <2>1, TailEnds
<1>3. Sendable(slots'[S]) => slots'[S] \in PeerImages
  <2>1. slots[S] \in Images /\ "size" \in Fields /\ "size" # "rest"
    BY <1>1, FlashTypes DEF Fields
  <2>2. CASE c = FirstSector
    <3>1. slots'[S]["size"] = Blank
      BY <1>1, <2>1, <2>2, OnSlotFacts
    <3> QED
      BY <3>1 DEF Sendable
  <2>3. CASE c = LaterSectors /\ FirstSector \notin Left
    <3>1. LaterSectors \in Left
      BY <2>3, Issued
    <3>2. slots[S]["size"] = Blank
      BY <1>1, <2>1, <2>3, <3>1 DEF FlashInv, Fresh
    <3>3. slots'[S]["size"] = Blank
      BY <1>1, <2>1, <2>3, <3>2, OnSlotFacts
    <3> QED
      BY <3>3 DEF Sendable
  <2>4. CASE c = EraseTable \/ \E s \in Slots, w \in {1, 2}, v \in Contents : c = Entry(s, w, v)
    <3>1. slots'[S] = slots[S]
      BY <1>1, <2>1, <2>4, OnSlotFacts
    <3> QED
      BY <1>1, <3>1 DEF PeerInv, PeersAreAlike
  <2>5. CASE /\ \E a \in Fields : c = Field(a, job.image)
             /\ Left \subseteq {Field(a, job.image) : a \in Fields}
    BY <2>5, FieldKeepsAlike
  <2> QED
    BY <2>2, <2>3, <2>4, <2>5, Kinds
<1>4. PeersAreAlike'
  BY <1>1, <1>3 DEF PeerInv, PeersAreAlike
<1> QED
  BY <1>1, <1>2, <1>4 DEF PeerInv

LEMMA NextKeepsAlike ==
  ASSUME ClosedUnderResets(PeerImages), FlashInv, PeerInv, [FlashNext]_flashVars
  PROVE  PeerInv'
<1>1. CASE UNCHANGED flashVars
  BY <1>1 DEF flashVars, PeerInv, PeersAreAlike, EndsWith
<1>2. ASSUME NEW s \in Accepted, NEW f \in Files, WriteFile(s, f) PROVE PeerInv'
  <2>1. /\ slots' = slots /\ todo' = WritePlan(s, f) /\ job'.by = "write" /\ job'.image = Image(f)
    BY <1>2 DEF WriteFile, Begin
  <2>2. EndsWith("write", Image(f), WritePlan(s, f))
    BY PlansEnd
  <2> QED
    BY <2>1, <2>2 DEF PeerInv, PeersAreAlike
<1>3. ASSUME NEW s \in Accepted, NEW image \in PeerImages, ReceiveFile(s, image) PROVE PeerInv'
  <2>1. /\ slots' = slots /\ todo' = ReceivePlan(s, image) /\ job'.by = "receive" /\ job'.image = image
    BY <1>3 DEF ReceiveFile, Begin
  <2>2. EndsWith("receive", image, ReceivePlan(s, image))
    <3>1. image \in Images
      BY FlashAssumption DEF Images, Contents
    <3> QED
      BY <3>1, PlansEnd
  <2> QED
    BY <2>1, <2>2 DEF PeerInv, PeersAreAlike
<1>4. ASSUME FlashReset PROVE PeerInv'
  BY <1>4 DEF FlashReset, PeerInv, PeersAreAlike
<1> QED
  BY <1>1, <1>2, <1>3, <1>4, StepKeepsAlike DEF FlashNext

\* If the images of peers include what this firmware leaves of a file or of one of them, an
\* image this HSM could send, whatever cut its commands off, is one of them: assuming no
\* other images of a peer loses nothing.
THEOREM PeersHoldTheSame == ClosedUnderResets(PeerImages) => (FlashSpec => []PeersAreAlike)
<1> SUFFICES ASSUME ClosedUnderResets(PeerImages) PROVE FlashSpec => []PeersAreAlike
  OBVIOUS
<1>1. FlashInit => PeerInv
  BY DEF FlashInit, PeerInv, PeersAreAlike, Sendable, NoImage, Fields
<1>2. FlashInv /\ PeerInv /\ [FlashNext]_flashVars => PeerInv'
  BY NextKeepsAlike
<1>3. PeerInv => PeersAreAlike
  BY DEF PeerInv
<1> QED
  BY <1>1, <1>2, <1>3, FlashInvariant, PTL DEF FlashSpec
=============================================================================
