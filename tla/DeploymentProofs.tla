--------------------------- MODULE DeploymentProofs ---------------------------
(***************************************************************************)
(* Proofs about Deployment, for all sets of HSMs, groups, slots, PINs and  *)
(* permission strings, and any number of secrets files and boots.          *)
(*                                                                         *)
(* The invariant says where every key comes from: an HSM has its keys from *)
(* the one secrets file it was built with (KeysOK), and a file is locked   *)
(* and signed with the keys its holder knows for its group (FileOK).  The  *)
(* second is what a transfer must not break: SendKey and ReceiveKey agree  *)
(* only between HSMs of one secrets file (SameDeployment).                 *)
(***************************************************************************)
EXTENDS Deployment, TLAPS

Pair(n, g, use) == [number |-> n, group |-> g, use |-> use]

SecretsOK ==
  /\ secrets.number \in Nat
  /\ \A g \in DOMAIN secrets.keys :
       g \in Groups /\ secrets.keys[g] = [use \in Uses |-> Pair(secrets.number, g, use)]

KeysOK(h) ==
  /\ image[h].transfer \in 0 .. secrets.number
  /\ ~Provisioned(h) => DOMAIN image[h].groups = {}
  /\ Provisioned(h) => image[h].stage1 = Lower(image[h].owner)
  /\ \A g \in DOMAIN image[h].groups :
       /\ g \in Groups
       /\ \A use \in Uses :
            /\ Public(h, g, use) = Pair(image[h].transfer, g, use)
            /\ Permits(h, g, use) => Private(h, g, use) = Public(h, g, use)

RamOK(h) ==
  /\ ram[h].nonce \in Nat
  /\ Running(h) => /\ Provisioned(h)
                   /\ ram[h].stage1 = image[h].stage1 /\ ram[h].stage2 = {ram[h].nonce}

FileOK(h, f) ==
  f.content # "none" =>
    /\ f.content \in Contents \cup {"empty"}
    /\ Known(h, f.group)
    /\ f.signer = Public(h, f.group, "write")
    /\ f.key = SessionKey(Shared(Ephemeral, Public(h, f.group, "read")), Public(h, f.group, "read"))

DeployInv ==
  /\ DOMAIN image = Hsms /\ DOMAIN ram = Hsms /\ DOMAIN slots = Hsms
  /\ SecretsOK
  /\ \A h \in Hsms : KeysOK(h) /\ RamOK(h)
  /\ \A h \in Hsms : DOMAIN slots[h] = Slots /\ \A s \in Slots : FileOK(h, slots[h][s])

-----------------------------------------------------------------------------
\* A transfer key fits only if both HSMs were built from one secrets file.
LEMMA SameDeployment ==
  ASSUME DeployInv, NEW h \in Hsms, NEW l \in Hsms, NEW g,
         Known(h, g), Known(l, g), SendKey(l, g) = ReceiveKey(h, g)
  PROVE  image[h].transfer = image[l].transfer
<1>1. SendKey(l, g).public = ReceiveKey(h, g).public
  OBVIOUS
<1>2. Public(l, g, "transfer") = Public(h, g, "transfer")
  BY <1>1 DEF SendKey, ReceiveKey, SessionKey
<1>3. Pair(image[l].transfer, g, "transfer") = Pair(image[h].transfer, g, "transfer")
  BY <1>2 DEF DeployInv, KeysOK, Known, Uses
<1> QED
  BY <1>3 DEF Pair

\* What both HSMs know of a group is the same then.
LEMMA SameKeys ==
  ASSUME DeployInv, NEW h \in Hsms, NEW l \in Hsms, NEW g,
         Known(h, g), Known(l, g), image[h].transfer = image[l].transfer
  PROVE  \A use \in Uses : Public(h, g, use) = Public(l, g, use)
BY DEF DeployInv, KeysOK, Known

LEMMA InitInv == DeployInit => DeployInv
<1> SUFFICES ASSUME DeployInit PROVE DeployInv
  OBVIOUS
<1>1. SecretsOK
  BY DEF DeployInit, SecretsOK
<1>2. ASSUME NEW h \in Hsms PROVE KeysOK(h) /\ RamOK(h)
  BY <1>1 DEF DeployInit, SecretsOK, KeysOK, RamOK, NoImage, Off, Running, Provisioned
<1>3. ASSUME NEW h \in Hsms PROVE DOMAIN slots[h] = Slots /\ \A s \in Slots : FileOK(h, slots[h][s])
  BY DEF DeployInit, FileOK, NoFile
<1> QED
  BY <1>1, <1>2, <1>3 DEF DeployInit, DeployInv

LEMMA GenSecretsInv ==
  ASSUME DeployInv, NEW listed \in SUBSET Groups, GenSecrets(listed)
  PROVE  DeployInv'
<1>1. SecretsOK'
  BY DEF DeployInv, SecretsOK, GenSecrets, Pair
<1>2. ASSUME NEW h \in Hsms PROVE KeysOK(h)' /\ RamOK(h)'
  <2>1. image[h].transfer \in 0 .. secrets'.number
    BY DEF DeployInv, SecretsOK, KeysOK, GenSecrets
  <2> QED
    BY <2>1 DEF DeployInv, GenSecrets, KeysOK, RamOK, Running, Provisioned, Public, Private,
                Permits, Known
<1>3. ASSUME NEW h \in Hsms, NEW s \in Slots PROVE FileOK(h, slots[h][s])'
  BY DEF DeployInv, GenSecrets, FileOK, Known, Public
<1> QED
  BY <1>1, <1>2, <1>3 DEF DeployInv, GenSecrets

LEMMA ProvisionInv ==
  ASSUME DeployInv, NEW h \in Hsms, NEW pin, NEW listed \in SUBSET DOMAIN secrets.keys,
         NEW permissions \in [listed -> Permissions], Provision(h, permissions, pin)
  PROVE  DeployInv'
<1> DEFINE new == [transfer |-> secrets.number, owner |-> pin, stage1 |-> Lower(pin),
                   groups |-> [g \in listed |-> GroupEntry(g, permissions[g])]]
<1>1. /\ image' = [image EXCEPT ![h] = new]
      /\ secrets' = secrets /\ ram' = ram /\ slots' = slots
      /\ ~Provisioned(h) /\ secrets.number # 0
  BY DEF Provision
<1>2. DOMAIN image' = Hsms /\ image'[h] = new /\ \A k \in Hsms \ {h} : image'[k] = image[k]
  BY <1>1 DEF DeployInv
<1>3. SecretsOK'
  BY <1>1 DEF DeployInv, SecretsOK
<1>4. KeysOK(h)'
  <2>1. ASSUME NEW g \in listed
        PROVE  /\ g \in Groups
               /\ \A use \in Uses :
                    /\ Public(h, g, use)' = Pair(secrets.number, g, use)
                    /\ Permits(h, g, use)' => Private(h, g, use)' = Public(h, g, use)'
    <3>1. g \in Groups /\ secrets.keys[g] = [use \in Uses |-> Pair(secrets.number, g, use)]
      BY DEF DeployInv, SecretsOK
    <3>2. image'[h].groups[g] = GroupEntry(g, permissions[g])
      BY <1>2
    <3> QED
      BY <3>1, <3>2 DEF Public, Private, Permits, GroupEntry
  <2> QED
    BY <1>1, <1>2, <2>1 DEF DeployInv, SecretsOK, KeysOK, Provisioned
<1>5. ASSUME NEW k \in Hsms \ {h} PROVE KeysOK(k)'
  BY <1>1, <1>2 DEF DeployInv, KeysOK, Provisioned, Public, Private, Permits, Known
<1>6. ASSUME NEW k \in Hsms PROVE RamOK(k)'
  BY <1>1, <1>2 DEF DeployInv, RamOK, Running, Provisioned
<1>7. ASSUME NEW k \in Hsms, NEW s \in Slots PROVE FileOK(k, slots[k][s])'
  <2>1. CASE k = h
    <3>1. slots[h][s].content = "none"
      BY <1>1 DEF DeployInv, KeysOK, FileOK, Known
    <3> QED
      BY <2>1, <3>1, <1>1 DEF FileOK
  <2>2. CASE k # h
    BY <2>2, <1>1, <1>2 DEF DeployInv, FileOK, Known, Public
  <2> QED
    BY <2>1, <2>2
<1> QED
  BY <1>1, <1>2, <1>3, <1>4, <1>5, <1>6, <1>7 DEF DeployInv

LEMMA BootInv ==
  ASSUME DeployInv, NEW h \in Hsms, Boot(h)
  PROVE  DeployInv'
<1>1. DOMAIN ram' = Hsms
  BY DEF DeployInv, Boot
<1>2. ASSUME NEW k \in Hsms PROVE RamOK(k)'
  BY DEF DeployInv, Boot, RamOK, Running, Provisioned
<1>3. ASSUME NEW k \in Hsms PROVE KeysOK(k)'
  BY DEF DeployInv, Boot, KeysOK, Provisioned, Public, Private, Permits, Known
<1>4. ASSUME NEW k \in Hsms, NEW s \in Slots PROVE FileOK(k, slots[k][s])'
  BY DEF DeployInv, Boot, FileOK, Known, Public
<1> QED
  BY <1>1, <1>2, <1>3, <1>4 DEF DeployInv, Boot, SecretsOK

\* A file stored where FileOK holds of it.
LEMMA StoreInv ==
  ASSUME DeployInv, NEW h \in Hsms, NEW s \in Slots, NEW f, FileOK(h, f),
         slots' = [slots EXCEPT ![h][s] = f], UNCHANGED <<secrets, image, ram>>
  PROVE  DeployInv'
<1>1. DOMAIN slots' = Hsms /\ \A k \in Hsms : DOMAIN slots'[k] = Slots
  BY DEF DeployInv
<1>2. ASSUME NEW k \in Hsms, NEW t \in Slots PROVE FileOK(k, slots[k][t])'
  <2>1. slots'[k][t] = IF k = h /\ t = s THEN f ELSE slots[k][t]
    BY DEF DeployInv
  <2>2. FileOK(k, slots'[k][t])
    BY <2>1 DEF DeployInv
  <2> QED
    BY <2>2 DEF FileOK, Known, Public
<1>3. ASSUME NEW k \in Hsms PROVE KeysOK(k)' /\ RamOK(k)'
  BY DEF DeployInv, KeysOK, RamOK, Running, Provisioned, Public, Private, Permits, Known
<1> QED
  BY <1>1, <1>2, <1>3 DEF DeployInv, SecretsOK

LEMMA WriteFileInv ==
  ASSUME DeployInv, NEW h \in Hsms, NEW s \in Slots, NEW g \in Groups,
         NEW content \in Contents \cup {"empty"}, NEW pin, WriteFile(h, s, g, content, pin)
  PROVE  DeployInv'
<1>1. Known(h, g) /\ Private(h, g, "write") = Public(h, g, "write")
  BY DEF WriteFile, MayWrite, Permits, Known, DeployInv, KeysOK, Uses
<1>2. FileOK(h, Written(h, g, content))
  BY <1>1 DEF FileOK, Written
<1> QED
  BY <1>2, StoreInv DEF WriteFile

LEMMA ReceiveFileInv ==
  ASSUME DeployInv, NEW h \in Hsms, NEW l \in Hsms, NEW from \in Slots, NEW to \in Slots,
         NEW pin, ReceiveFile(h, l, from, to, pin)
  PROVE  DeployInv'
<1> DEFINE f == slots[l][from]
<1>1. /\ FileOK(l, f) /\ f.content # "none"
      /\ Known(h, f.group) /\ Known(l, f.group) /\ SendKey(l, f.group) = ReceiveKey(h, f.group)
  BY DEF DeployInv, ReceiveFile, Receivable, Announced
<1>2. \A use \in Uses : Public(h, f.group, use) = Public(l, f.group, use)
  BY <1>1, SameDeployment, SameKeys
<1>3. FileOK(h, f)
  BY <1>1, <1>2 DEF FileOK, Uses
<1> QED
  BY <1>3, StoreInv DEF ReceiveFile

LEMMA NextInv == DeployInv /\ [DeployNext]_deployVars => DeployInv'
<1> SUFFICES ASSUME DeployInv, [DeployNext]_deployVars PROVE DeployInv'
  OBVIOUS
<1>1. CASE UNCHANGED deployVars
  <2>1. secrets' = secrets /\ image' = image /\ ram' = ram /\ slots' = slots
    BY <1>1 DEF deployVars
  <2>2. ASSUME NEW k \in Hsms PROVE KeysOK(k)'
    BY <2>1 DEF DeployInv, KeysOK, Provisioned, Public, Private, Permits, Known
  <2>3. ASSUME NEW k \in Hsms PROVE RamOK(k)'
    BY <2>1 DEF DeployInv, RamOK, Running, Provisioned
  <2>4. ASSUME NEW k \in Hsms, NEW s \in Slots PROVE FileOK(k, slots[k][s])'
    BY <2>1 DEF DeployInv, FileOK, Known, Public
  <2> QED
    BY <2>1, <2>2, <2>3, <2>4 DEF DeployInv, SecretsOK
<1>2. ASSUME NEW listed \in SUBSET Groups, GenSecrets(listed) PROVE DeployInv'
  BY <1>2, GenSecretsInv
<1>3. ASSUME NEW h \in Hsms, NEW listed \in SUBSET DOMAIN secrets.keys, NEW pin \in OwnerPins,
             NEW permissions \in [listed -> Permissions], Provision(h, permissions, pin)
      PROVE  DeployInv'
  BY <1>3, ProvisionInv
<1>4. ASSUME NEW h \in Hsms, Boot(h) PROVE DeployInv'
  BY <1>4, BootInv
<1>5. ASSUME NEW h \in Hsms, NEW s \in Slots, NEW g \in Groups, NEW c \in Contents \cup {"empty"},
             NEW pin \in Pins, WriteFile(h, s, g, c, pin)
      PROVE  DeployInv'
  BY <1>5, WriteFileInv
<1>6. ASSUME NEW h \in Hsms, NEW l \in Hsms, NEW from \in Slots, NEW to \in Slots,
             NEW pin \in Pins, ReceiveFile(h, l, from, to, pin)
      PROVE  DeployInv'
  BY <1>6, ReceiveFileInv
<1> QED
  BY <1>1, <1>2, <1>3, <1>4, <1>5, <1>6, Zenon DEF DeployNext

\* gen_secrets.py, generate_secrets.py, write.c and receive.c: every key of an HSM is
\* from the one secrets file it was built with, and every file it holds, written or
\* received, is locked and signed with the keys it knows for the file's group.
THEOREM DeployInvariant == DeploySpec => []DeployInv
BY InitInv, NextInv, PTL DEF DeploySpec

-----------------------------------------------------------------------------
\* pin_utils.c, write.c and receive.c: a running HSM has hashed its PIN for this boot
\* only, and knows the group of every file it holds.
THEOREM DeployTypes == DeploySpec => []DeployTypeOK
<1>1. DeployInv => DeployTypeOK
  BY DEF DeployInv, DeployTypeOK, SecretsOK, KeysOK, RamOK, FileOK
<1> QED
  BY <1>1, DeployInvariant, PTL

\* read.c: a file with read permission and the right PIN reads back its content
\* wherever it came from, and nothing ever seems corrupted.
THEOREM PermittedReadSucceeds == DeploySpec => []ReadsBack
<1>1. ASSUME DeployInv PROVE ReadsBack
  <2> SUFFICES ASSUME NEW h \in Hsms, NEW s \in Slots, NEW pin \in Pins,
                      Running(h), slots[h][s].content # "none"
               PROVE  ReadResult(h, slots[h][s], pin) =
                        IF ~RightPin(h, pin) THEN "Invalid PIN"
                        ELSE IF Permits(h, slots[h][s].group, "read") THEN slots[h][s].content
                        ELSE "not provisioned"
    BY DEF ReadsBack
  <2> DEFINE f == slots[h][s]
  <2>1. ValidPin(h, pin) <=> RightPin(h, pin)
    BY <1>1 DEF ValidPin, RightPin, DeployInv, KeysOK, RamOK
  <2>2. SignedByGroup(h, f)
    BY <1>1 DEF SignedByGroup, DeployInv, FileOK
  <2>3. Permits(h, f.group, "read") => Decrypts(h, f)
    <3> SUFFICES ASSUME Permits(h, f.group, "read") PROVE Decrypts(h, f)
      OBVIOUS
    <3>1. Private(h, f.group, "read") = Public(h, f.group, "read")
      BY <1>1 DEF DeployInv, KeysOK, Permits, Known, Uses
    <3>2. Shared(Private(h, f.group, "read"), Ephemeral) = Shared(Ephemeral, Public(h, f.group, "read"))
      BY <3>1 DEF Shared
    <3> QED
      BY <1>1, <3>2 DEF Decrypts, DeployInv, FileOK
  <2> QED
    BY <2>1, <2>2, <2>3 DEF ReadResult
<1> QED
  BY <1>1, DeployInvariant, PTL

\* interrogate.c, listen.c and receive.c: a slot is shown exactly if it can be fetched,
\* and the listener knows the group of every file it announces.
THEOREM ShownIsFetchable == DeploySpec => []OfferedIsReceivable
<1>1. ASSUME DeployInv PROVE OfferedIsReceivable
  <2> SUFFICES ASSUME NEW h \in Hsms, NEW l \in Hsms, NEW s \in Slots
               PROVE  /\ s \in Offered(h, l) <=> Receivable(h, l, s)
                      /\ Announced(l, s) => Known(l, slots[l][s].group)
    BY DEF OfferedIsReceivable
  <2> DEFINE g == slots[l][s].group
  <2>1. Announced(l, s) => Known(l, g)
    BY <1>1 DEF Announced, DeployInv, FileOK
  <2>2. Receivable(h, l, s) => image[h].transfer = image[l].transfer /\ s \in Offered(h, l)
    <3> SUFFICES ASSUME Receivable(h, l, s)
                 PROVE  image[h].transfer = image[l].transfer /\ s \in Offered(h, l)
      OBVIOUS
    <3>1. image[h].transfer = image[l].transfer
      BY <1>1, SameDeployment DEF Receivable
    <3>2. g \in Groups
      BY <1>1 DEF Receivable, Known, DeployInv, KeysOK
    <3> QED
      BY <3>1, <3>2 DEF Receivable, Offered, Asked, Announced
  <2>3. s \in Offered(h, l) => Receivable(h, l, s)
    <3> SUFFICES ASSUME s \in Offered(h, l) PROVE Receivable(h, l, s)
      OBVIOUS
    <3>1. /\ image[h].transfer = image[l].transfer
          /\ Announced(l, s) /\ Permits(h, g, "transfer") /\ Known(h, g) /\ Known(l, g)
      BY <2>1 DEF Offered, Asked, Announced, Permits
    <3>2. Public(h, g, "transfer") = Public(l, g, "transfer")
      BY <1>1, <3>1, SameKeys DEF Uses
    <3>3. Private(h, g, "transfer") = Public(h, g, "transfer")
      BY <1>1, <3>1 DEF DeployInv, KeysOK, Known, Uses
    <3>4. Shared(Private(h, g, "transfer"), Ephemeral) = Shared(Ephemeral, Public(l, g, "transfer"))
      BY <3>2, <3>3 DEF Shared
    <3>5. SendKey(l, g) = ReceiveKey(h, g)
      BY <3>2, <3>4 DEF SendKey, ReceiveKey
    <3> QED
      BY <3>1, <3>5 DEF Receivable
  <2> QED
    BY <2>1, <2>2, <2>3
<1> QED
  BY <1>1, DeployInvariant, PTL
=============================================================================
